---------------------------- MODULE Spec2Model ----------------------------
(***************************************************************************)
(* Raptor-Lite fountain codec of beammeup: encoder, decoder, pre-coder,    *)
(* PRNG, packet framing and the receiver's session handling.               *)
(*                                                                         *)
(* Representation.  A JavaScript Uint8Array is a sequence of 0..255.  A    *)
(* 32-bit word whose value may exceed 2^31-1 (PRNG lanes, the random       *)
(* fileId) is the pair <<high 16 bits, low 16 bits>>;                      *)
(* block counts and symbol ids stay small and are integers.  null and      *)
(* undefined have one value per kind of slot they can stand in (NullNum,   *)
(* NullWord, NullBytes, NullBlocks, NullMap, NullRec); a value returned is *)
(* named by its JavaScript literal, an error raised by a record.           *)
(***************************************************************************)
EXTENDS Integers, Sequences, FiniteSets, TLC

\* null / undefined where a number, a 32-bit word, a byte array, the block
\* array, the parity map or an object may stand
NullNum == -1
NullWord == <<-1>>
NullBytes == <<-1>>
NullBlocks == << <<-2>> >>
NullMap == << <<-1>> >>
NullRec == [null |-> TRUE]

\* ------------------------------------------------------------------ bounds
\* largest source-block count K of a staged file
MaxK == 3
\* largest symbol id a sender emits towards the decoder
MaxSymbolId == 10
\* largest symbol id asked of generateSymbol in the encoder-only runs
MaxEmitId == 40
\* most distinct symbols one decoder accepts before the run is cut off
MaxUnique == 4
\* largest symbol id of the packets a damaging channel carries
MaxNoisyId == 3
\* largest number of source blocks of the precoder tests
MaxParityK == 16
\* number of source block fillings of the precoder tests, less one
MaxFill == 1
\* longest payload of the packet round-trip runs
MaxPayloadLen == 2
\* longest filename or MIME string of the metadata round-trip runs, in
\* UTF-16 code units
MaxNameUnits == 256
\* intermediate block counts K' = 1..MaxFountainK for the neighbour choice
MaxFountainK == 6
\* fountain symbol ids K' + 1 .. K' + MaxFountainIds
MaxFountainIds == 10
\* intervals armed at once before the sender takes no further file
MaxTimers == 2

\* ------------------------------------------------------------ word helpers
\* an array built by a constructor, stored element by element
Arr(f) == f \o <<>>

\* a ^ b on bytes
RECURSIVE XorInt(_, _)
XorInt(a, b) ==
  IF a = 0 THEN b
  ELSE IF b = 0 THEN a
  ELSE ((a + b) % 2) + 2 * XorInt(a \div 2, b \div 2)

\* a ^ b tabulated once for all byte pairs, at [a + 1][b + 1]
XorTable == Arr([a \in 1..256 |-> Arr([b \in 1..256 |-> XorInt(a - 1, b - 1)])])

XorByte(a, b) == XorTable[a + 1][b + 1]

\* element-wise ^= of two byte arrays; a missing operand byte is undefined,
\* and x ^ undefined is x in a Uint8Array store
XorBytes(p, q) ==
  Arr([i \in 1..Len(p) |-> IF i <= Len(q) THEN XorByte(p[i], q[i]) ELSE p[i]])

\* the 32-bit word of a small non-negative integer (n < 2^31)
ToU32(n) == <<n \div 65536, n % 65536>>

\* a 32-bit word given by its two 16-bit halves
U32Of(hi, lo) == <<hi, lo>>

Xor16(a, b) ==
  XorByte(a \div 256, b \div 256) * 256 + XorByte(a % 256, b % 256)

Xor32(a, b) == <<Xor16(a[1], b[1]), Xor16(a[2], b[2])>>

\* a << n for 0 < n < 16, kept to 32 bits
Shl32(a, n) ==
  <<(a[1] * (2 ^ n) + a[2] \div (2 ^ (16 - n))) % 65536, (a[2] * (2 ^ n)) % 65536>>

\* a >>> n for 0 < n < 32
Shr32(a, n) ==
  IF n >= 16 THEN <<0, a[1] \div (2 ^ (n - 16))>>
  ELSE <<a[1] \div (2 ^ n), a[2] \div (2 ^ n) + (a[1] % (2 ^ n)) * (2 ^ (16 - n))>>

\* (a + n) >>> 0 for a small n
Add32(a, n) ==
  LET lo == a[2] + n IN <<(a[1] + lo \div 65536) % 65536, lo % 65536>>

\* unsigned value of a word modulo m (m < 2^15)
ModU32(a, m) == ((a[1] % m) * (65536 % m) + a[2]) % m

\* unsigned value of a word below 2^31
IntOfU32(a) == a[1] * 65536 + a[2]

\* the four bytes DataView.setUint32 writes big-endian
U32Bytes(a) == <<a[1] \div 256, a[1] % 256, a[2] \div 256, a[2] % 256>>

\* the word DataView.getUint32 reads from four big-endian bytes
BytesU32(b) == <<b[1] * 256 + b[2], b[3] * 256 + b[4]>>

\* ------------------------------------------------- IEEE-754 double product
\* seed * 1812433253 + 1 is evaluated in double precision: the exact product
\* is rounded to 53 significant bits (ties to even), 1 is added, the sum is
\* rounded again, and >>> 0 keeps the low 32 bits.
\* 1812433253 = 0x6C078965, least significant byte first
LCG_MULTIPLIER == <<101, 137, 7, 108>>

\* the bytes of a word, least significant first
LittleBytes(a) == <<a[2] % 256, a[2] \div 256, a[1] % 256, a[1] \div 256>>

RECURSIVE SumTo(_, _, _, _)
SumTo(x, c, k, i) ==
  IF i > 4 THEN 0
  ELSE (IF k + 2 - i \in 1..4 THEN x[i] * c[k + 2 - i] ELSE 0) + SumTo(x, c, k, i + 1)

\* the eight base-256 digits of the exact product, least significant first
RECURSIVE MulDigits(_, _, _, _, _)
MulDigitsCarry(x, c, k, total, acc) ==
  MulDigits(x, c, k + 1, total \div 256, Append(acc, total % 256))

MulDigits(x, c, k, carry, acc) ==
  IF k > 7 THEN acc ELSE MulDigitsCarry(x, c, k, SumTo(x, c, k, 1) + carry, acc)

\* the most significant non-zero digit, and the highest set bit of a byte
TopDigit(digits) ==
  CHOOSE k \in 1..8 : digits[k] # 0 /\ \A j \in (k + 1)..8 : digits[j] = 0

HighBit(v) == CHOOSE n \in 0..7 : 2 ^ n <= v /\ v < 2 ^ (n + 1)

MsbAt(digits, top) == 8 * (top - 1) + HighBit(digits[top])

\* position of the highest set bit of a number given by its digits
MsbOf(digits) == MsbAt(digits, TopDigit(digits))

\* the low 32 bits of the product
LowWord(digits) == <<digits[4] * 256 + digits[3], digits[2] * 256 + digits[1]>>

\* the product needs 53 + d bits, d in 1..10: its low d bits are rounded
\* away, ties to even
RoundLow(low, d) ==
  IF (low[2] \div (2 ^ (d - 1))) % 2 = 1
     /\ (low[2] % (2 ^ (d - 1)) # 0 \/ (low[2] \div (2 ^ d)) % 2 = 1)
  THEN Add32(<<low[1], low[2] - (low[2] % (2 ^ d))>>, 2 ^ d)
  ELSE <<low[1], low[2] - (low[2] % (2 ^ d))>>

\* adding 1 to the rounded product: a tie when d = 1, rounded to even, and
\* lost to rounding when d > 1
PlusOneRounded(rounded, d) ==
  IF d = 1 /\ (rounded[2] \div 2) % 2 = 1 THEN Add32(rounded, 2) ELSE rounded

PlusOne(low, msb) ==
  IF msb <= 52 THEN Add32(low, 1) ELSE PlusOneRounded(RoundLow(low, msb - 52), msb - 52)

LcgOfDigits(digits) ==
  IF \A k \in 1..8 : digits[k] = 0 THEN <<0, 1>>
  ELSE PlusOne(LowWord(digits), MsbOf(digits))

\* (x * 1812433253 + 1) >>> 0
LcgStep(x) == LcgOfDigits(MulDigits(LittleBytes(x), LCG_MULTIPLIER, 0, 0, <<>>))

\* ------------------------------------------------------------------- PRNG
Lanes(s0, s1, s2) == [s0 |-> s0, s1 |-> s1, s2 |-> s2, s3 |-> LcgStep(s2)]

LanesFrom(s0, s1) == Lanes(s0, s1, LcgStep(s1))

createPRNG(seed) == LanesFrom(seed, LcgStep(seed))

\* the word next() computes from lane s3 and t = s0 ^ (s0 << 11)
nextWord(s3, t) == Xor32(Xor32(s3, Shr32(s3, 19)), Xor32(t, Shr32(t, 8)))

nextWith(rng, n3) ==
  [rng |-> [s0 |-> rng.s1, s1 |-> rng.s2, s2 |-> rng.s3, s3 |-> n3], value |-> n3]

\* next(): the new generator state and the word returned
next(rng) == nextWith(rng, nextWord(rng.s3, Xor32(rng.s0, Shl32(rng.s0, 11))))

nextIntOf(r, max) == [rng |-> r.rng, value |-> ModU32(r.value, max)]

nextInt(rng, max) == nextIntOf(next(rng), max)

InSeq(s, x) == \E i \in 1..Len(s) : s[i] = x

RECURSIVE pickUniqueLoop(_, _, _, _)
pickUniqueStep(r, n, max, indices) ==
  IF InSeq(indices, r.value)
  THEN pickUniqueLoop(r.rng, n, max, indices)
  ELSE pickUniqueLoop(r.rng, n, max, Append(indices, r.value))

pickUniqueLoop(rng, n, max, indices) ==
  IF Len(indices) >= n THEN indices
  ELSE pickUniqueStep(nextInt(rng, max), n, max, indices)

pickUnique(rng, n, max) == pickUniqueLoop(rng, n, max, <<>>)

\* -------------------------------------------------------------- constants
PROTOCOL_VERSION == 1
QR_MODE_BW == 0
BLOCK_SIZE == 200
FOUNTAIN_DEGREE == 3
PARITY_LAYERS == 3
\* rng.next() / 0xFFFFFFFF < DEGREE_ONE_PROBABILITY (0.15) holds exactly for
\* the words r <= 644245094, since 0.15 * 4294967295 = 644245094.25
DEGREE_ONE_MAX_WORD == 644245094

Min(a, b) == IF a < b THEN a ELSE b
Max(a, b) == IF a > b THEN a ELSE b

\* the integers a, a+1, ..., b-1 in order
Range(a, b) == Arr([x \in 1..Max(b - a, 0) |-> a + x - 1])

Zeros(n) == Arr([i \in 1..n |-> 0])

\* Uint8Array.slice(from, to) / Array.slice on a 0-based array held as a sequence
Slice(arr, from, to) ==
  LET lo == Min(Max(from, 0), Len(arr))
      hi == Min(Max(to, lo), Len(arr))
  IN  Arr([i \in 1..(hi - lo) |-> arr[lo + i]])

\* the sequences ss[lo..hi] joined in order
RECURSIVE ConcatRange(_, _, _)
ConcatRange(ss, lo, hi) ==
  IF lo > hi THEN <<>>
  ELSE IF lo = hi THEN ss[lo]
  ELSE ConcatRange(ss, lo, (lo + hi) \div 2) \o ConcatRange(ss, (lo + hi) \div 2 + 1, hi)

Concat(ss) == ConcatRange(ss, 1, Len(ss))

\* ---------------------------------------------------------------- precode
\* Math.ceil(Math.sqrt(K))
CeilSqrt(K) == CHOOSE g \in 0..K : g * g >= K /\ (g = 0 \/ (g - 1) * (g - 1) < K)

calculateParityParams(K) ==
  LET G == CeilSqrt(K)
      M == PARITY_LAYERS * G
  IN  [G |-> G, M |-> M, K_prime |-> K + M]

\* number of i = 0, 1, ... with start + i * G < K
GroupCount(start, G, K) ==
  IF start >= K THEN 0 ELSE ((K - start - 1) \div G) + 1

\* every G-th index from i below K
Strided(i, G, K) == Arr([x \in 1..GroupCount(i, G, K) |-> i + (x - 1) * G])

AtLeastTwo(indices) == Len(indices) >= 2

\* layer 1: consecutive groups of G
consecutiveGroups(K, G) ==
  Arr([x \in 1..GroupCount(0, G, K) |-> Range((x - 1) * G, Min(x * G, K))])

\* layer 2: groups of G shifted by floor(G / 2)
offsetGroups(K, G, offset) ==
  Arr([x \in 1..GroupCount(offset, G, K) |->
         Range(offset + (x - 1) * G, Min(offset + (x - 1) * G + G, K))])

\* layer 3: every G-th block
stridedGroups(K, G) == Arr([x \in 1..Min(G, K) |-> Strided(x - 1, G, K)])

generateParityMap_allFiltered(K, G) ==
  SelectSeq(consecutiveGroups(K, G), AtLeastTwo)
    \o SelectSeq(offsetGroups(K, G, G \div 2), AtLeastTwo)
    \o SelectSeq(stridedGroups(K, G), AtLeastTwo)

generateParityMap(K, G) ==
  consecutiveGroups(K, G) \o SelectSeq(offsetGroups(K, G, G \div 2), AtLeastTwo)
    \o SelectSeq(stridedGroups(K, G), AtLeastTwo)

\* XOR of the 0-based blocks named in indices, folded into acc
RECURSIVE XorBlocksInto(_, _, _)
XorBlocksInto(acc, blocks, indices) ==
  IF indices = <<>> THEN acc
  ELSE XorBlocksInto(XorBytes(acc, blocks[Head(indices) + 1]), blocks, Tail(indices))

generateParityBlocks(sourceBlocks, parityMap) ==
  Arr([p \in 1..Len(parityMap) |->
         XorBlocksInto(Zeros(BLOCK_SIZE), sourceBlocks, parityMap[p])])

\* a block array entry, null past the end and where nothing is stored
NoBlock == <<-1>>

entryAt(blocks, idx) == IF idx + 1 \in 1..Len(blocks) THEN blocks[idx + 1] ELSE NoBlock

unknownsOf(blocks, sourceIndices) ==
  SelectSeq(sourceIndices, LAMBDA i : entryAt(blocks, i) = NoBlock)

knownExcept(blocks, sourceIndices, missingIdx) ==
  SelectSeq(sourceIndices, LAMBDA i : i # missingIdx /\ entryAt(blocks, i) # NoBlock)

recoveredBlock_parityOnly(blocks, parityIdx, sourceIndices, missingIdx) ==
  blocks[parityIdx + 1]

\* the parity block with every known source block of its row XORed out
recoveredBlock(blocks, parityIdx, sourceIndices, missingIdx) ==
  XorBlocksInto(blocks[parityIdx + 1], blocks,
                knownExcept(blocks, sourceIndices, missingIdx))

\* decodedBlocks[missingIdx] = recovered; totalRecovered++; progress = true
storeRecovered(st, missingIdx, recovered) ==
  [decodedBlocks |-> [st.decodedBlocks EXCEPT ![missingIdx + 1] = recovered],
   totalRecovered |-> st.totalRecovered + 1, progress |-> TRUE]

\* the for loop of recoverWithParity from row p (0-based) to the last
RECURSIVE recoverPass(_, _, _, _)
recoverRow(st, K, parityMap, p, unknowns) ==
  IF entryAt(st.decodedBlocks, K + p) = NoBlock
  THEN recoverPass(st, K, parityMap, p + 1)
  ELSE IF Len(unknowns) = 1
  THEN recoverPass(storeRecovered(st, unknowns[1],
                                  recoveredBlock(st.decodedBlocks, K + p,
                                                 parityMap[p + 1], unknowns[1])),
                   K, parityMap, p + 1)
  ELSE recoverPass(st, K, parityMap, p + 1)

recoverPass(st, K, parityMap, p) ==
  IF p >= Len(parityMap) THEN st
  ELSE recoverRow(st, K, parityMap, p, unknownsOf(st.decodedBlocks, parityMap[p + 1]))

\* while (progress) { progress = false; for ... }
RECURSIVE recoverWhile(_, _, _)
recoverWhile(st, K, parityMap) ==
  IF st.progress
  THEN recoverWhile(recoverPass([st EXCEPT !.progress = FALSE], K, parityMap, 0),
                    K, parityMap)
  ELSE st

\* the block array afterwards and the number of blocks recovered
recoverWithParity(decodedBlocks, K, parityMap) ==
  recoverWhile([decodedBlocks |-> decodedBlocks, totalRecovered |-> 0,
                progress |-> TRUE], K, parityMap)

\* ----------------------------------------------------------------- packet
\* the flags byte: bit 0 isMetadata, bits 1-2 mode, bits 3-4 spatialPos
flagsOf_oneModeBit(isMetadata, mode, spatialPos) ==
  (IF isMetadata THEN 1 ELSE 0) + 2 * (mode % 2) + 8 * (spatialPos % 4)

flagsOf(isMetadata, mode, spatialPos) ==
  (IF isMetadata THEN 1 ELSE 0) + 2 * (mode % 4) + 8 * (spatialPos % 4)

\* createPacket with every argument given; fileId, k and symbolId are 32-bit
\* words, blockSize is written as 16 bits
createPacketWith(fileId, k, symbolId, payload, isMetadata, blockSize, mode, spatialPos) ==
  <<PROTOCOL_VERSION>> \o U32Bytes(fileId) \o U32Bytes(k) \o U32Bytes(symbolId)
    \o <<(blockSize \div 256) % 256, blockSize % 256>>
    \o <<flagsOf(isMetadata, mode, spatialPos)>> \o payload

\* createPacket with blockSize, mode and spatialPos at their defaults
createPacket(fileId, k, symbolId, payload, isMetadata) ==
  createPacketWith(fileId, ToU32(k), ToU32(symbolId), payload, isMetadata,
                   200, QR_MODE_BW, 0)

\* the record parsePacket returns, k and symbolId kept as 32-bit words
parsedFields(data, flags) ==
  [fileId     |-> BytesU32(SubSeq(data, 2, 5)),
   k          |-> BytesU32(SubSeq(data, 6, 9)),
   symbolId   |-> BytesU32(SubSeq(data, 10, 13)),
   blockSize  |-> data[14] * 256 + data[15],
   isMetadata |-> flags % 2 = 1,
   mode       |-> (flags \div 2) % 4,
   spatialPos |-> (flags \div 8) % 4,
   payload    |-> Slice(data, 16, Len(data))]

parsePacketWide(data) ==
  IF Len(data) < 16 THEN NullRec
  ELSE IF data[1] # PROTOCOL_VERSION THEN NullRec
  ELSE parsedFields(data, data[16])

\* k and symbolId as the numbers the decoder works with
narrowed(parsed) ==
  IF parsed = NullRec THEN NullRec
  ELSE [parsed EXCEPT !.k = IntOfU32(@), !.symbolId = IntOfU32(@)]

parsePacket_anyVersion(data) ==
  IF Len(data) < 16 THEN NullRec
  ELSE [fileId     |-> BytesU32(SubSeq(data, 2, 5)),
        k          |-> IntOfU32(BytesU32(SubSeq(data, 6, 9))),
        symbolId   |-> IntOfU32(BytesU32(SubSeq(data, 10, 13))),
        blockSize  |-> data[14] * 256 + data[15],
        isMetadata |-> data[16] % 2 = 1,
        mode       |-> (data[16] \div 2) % 4,
        spatialPos |-> (data[16] \div 8) % 4,
        payload    |-> Slice(data, 16, Len(data))]

parsePacket(data) == narrowed(parsePacketWide(data))

\* --------------------------------------------------------------- metadata
\* TextEncoder.encode of one code unit (the model's strings stay below U+0800)
Utf8(c) == IF c < 128 THEN <<c>> ELSE <<192 + (c \div 64), 128 + (c % 64)>>

TextEncode(str) == Concat(Arr([i \in 1..Len(str) |-> Utf8(str[i])]))

\* TextDecoder.decode: one- and two-byte sequences, U+FFFD for the rest.
\* A trail byte is taken by the lead byte before it; every other byte starts
\* a character (a lead byte is never itself a trail byte)
isLead(b) == b \in 194..223
isTrail(b) == b \in 128..191

takenByLead(bytes, i) == i > 1 /\ isTrail(bytes[i]) /\ isLead(bytes[i - 1])

decodeAt(bytes, i) ==
  IF bytes[i] < 128 THEN bytes[i]
  ELSE IF isLead(bytes[i]) /\ i < Len(bytes) /\ isTrail(bytes[i + 1])
  THEN (bytes[i] - 192) * 64 + (bytes[i + 1] - 128)
  ELSE 65533

decodeStarts(bytes, starts) == Arr([j \in 1..Len(starts) |-> decodeAt(bytes, starts[j])])

TextDecode(bytes) ==
  decodeStarts(bytes, SelectSeq(Range(1, Len(bytes) + 1),
                                LAMBDA i : ~takenByLead(bytes, i)))

metadataBytes(filenameBytes, mimeBytes, fileSize, hash, K, mode) ==
  <<Len(filenameBytes) % 256>> \o filenameBytes
    \o <<Len(mimeBytes) % 256>> \o mimeBytes
    \o U32Bytes(ToU32(fileSize)) \o hash \o U32Bytes(ToU32(K)) \o <<mode % 4>>

\* createMetadataPayload with the mode given
createMetadataPayloadWith(filename, mimeType, fileSize, hash, K, mode) ==
  metadataBytes(TextEncode(Slice(filename, 0, 255)), TextEncode(Slice(mimeType, 0, 255)),
                fileSize, hash, K, mode)

\* createMetadataPayload with the mode at its default
createMetadataPayload(filename, mimeType, fileSize, hash, K) ==
  createMetadataPayloadWith(filename, mimeType, fileSize, hash, K, QR_MODE_BW)

RangeError == [error |-> "RangeError"]
TypeError == [error |-> "TypeError"]

\* the fields read once the offsets off1 (after the filename) and off2 (after
\* the mime type) are known; new DataView(buffer, offset, 4) raises a
\* RangeError unless the four bytes lie inside the payload
parseFields(payload, off1, off2) ==
  IF off2 + 4 > Len(payload) THEN RangeError
  ELSE IF off2 + 36 + 4 > Len(payload) THEN RangeError
  ELSE [filename |-> TextDecode(Slice(payload, 1, off1)),
        mimeType |-> TextDecode(Slice(payload, off1 + 1, off2)),
        fileSize |-> BytesU32(SubSeq(payload, off2 + 1, off2 + 4)),
        hash     |-> Slice(payload, off2 + 4, off2 + 36),
        K        |-> BytesU32(SubSeq(payload, off2 + 37, off2 + 40)),
        mode     |-> IF off2 + 40 < Len(payload) THEN payload[off2 + 41] % 4
                     ELSE QR_MODE_BW]

\* the payload ends before the mime type length: payload[offset] is
\* undefined, the offset becomes NaN, both DataViews start at byte 0 of the
\* payload's buffer and the slices taken from NaN are empty
parseFromStart(payload) ==
  IF Len(payload) < 4 THEN RangeError
  ELSE [filename |-> TextDecode(Slice(payload, 1, Len(payload))),
        mimeType |-> <<>>,
        fileSize |-> BytesU32(SubSeq(payload, 1, 4)),
        hash     |-> <<>>,
        K        |-> BytesU32(SubSeq(payload, 1, 4)),
        mode     |-> QR_MODE_BW]

\* the mime type length sits at off1, unless the payload ends there
parseMime(payload, off1) ==
  IF off1 >= Len(payload) THEN parseFromStart(payload)
  ELSE parseFields(payload, off1, off1 + 1 + payload[off1 + 1])

\* the record parseMetadataPayload returns, fileSize and K kept as 32-bit
\* words
parseMetadataPayloadWide(payload) ==
  IF payload = <<>> THEN RangeError ELSE parseMime(payload, 1 + payload[1])

\* fileSize and K as the numbers the decoder works with
narrowedMetadata(meta) ==
  IF meta = RangeError THEN RangeError
  ELSE [meta EXCEPT !.fileSize = IntOfU32(@), !.K = IntOfU32(@)]

parseMetadataPayload(payload) == narrowedMetadata(parseMetadataPayloadWide(payload))

\* ---------------------------------------------------------------- encoder
\* (K, then the neighbour choice shared by generateSymbol and receive)
CeilDiv(a, b) == (a + b - 1) \div b

\* the file padded with zeros to K blocks, and its K source blocks
padded(fileData, K) == fileData \o Zeros(K * BLOCK_SIZE - Len(fileData))

sliceBlocks(paddedData, K) ==
  Arr([i \in 1..K |-> Slice(paddedData, (i - 1) * BLOCK_SIZE, i * BLOCK_SIZE)])

\* the encoder object; metadataPayload.set(rawMetadata) raises a RangeError
\* when the raw metadata is longer than the BLOCK_SIZE buffer
encoderOf(fileId, originalSize, sourceBlocks, params, rawMetadata) ==
  IF Len(rawMetadata) > BLOCK_SIZE THEN RangeError
  ELSE [fileId |-> fileId, K |-> Len(sourceBlocks), K_prime |-> params.K_prime,
        M |-> params.M, originalSize |-> originalSize,
        intermediateBlocks |->
          sourceBlocks
            \o generateParityBlocks(sourceBlocks,
                                    generateParityMap(Len(sourceBlocks), params.G)),
        metadataPayload |-> rawMetadata \o Zeros(BLOCK_SIZE - Len(rawMetadata))]

encoderFor(fileId, fileData, filename, mimeType, hash, K) ==
  encoderOf(fileId, Len(fileData), sliceBlocks(padded(fileData, K), K),
            calculateParityParams(K),
            createMetadataPayload(filename, mimeType, Len(fileData), hash, K))

createEncoder(fileId, fileData, filename, mimeType, hash) ==
  encoderFor(fileId, fileData, filename, mimeType, hash,
             CeilDiv(Len(fileData), BLOCK_SIZE))

\* degreeRoll < DEGREE_ONE_PROBABILITY
isDegreeOne(word) == word[1] < 32768 /\ IntOfU32(word) <= DEGREE_ONE_MAX_WORD

\* the degree of a fountain symbol that is not of degree one
fountainDegree(K_prime) == Min(FOUNTAIN_DEGREE, Max(1, K_prime - 1))

\* a fountain symbol that takes up to FOUNTAIN_DEGREE blocks, all K' included
encoderFountain_allBlocks(roll, K_prime) ==
  IF isDegreeOne(roll.value)
  THEN <<nextInt(roll.rng, K_prime).value>>
  ELSE pickUnique(roll.rng, Min(FOUNTAIN_DEGREE, K_prime), K_prime)

\* the neighbour indices generateSymbol selects for a symbolId above K_prime,
\* from the degree roll and the generator after it
encoderFountain(roll, K_prime) ==
  IF isDegreeOne(roll.value)
  THEN <<nextInt(roll.rng, K_prime).value>>
  ELSE pickUnique(roll.rng, Min(FOUNTAIN_DEGREE, Max(1, K_prime - 1)), K_prime)

\* the neighbour indices generateSymbol selects for symbolId >= 1
encoderIndices(enc, symbolId) ==
  IF symbolId <= enc.K_prime
  THEN <<(symbolId - 1) % enc.K_prime>>
  ELSE encoderFountain(next(createPRNG(Xor32(enc.fileId, ToU32(symbolId)))),
                       enc.K_prime)

\* [packet |-> bytes], or TypeError when a selected index has no
\* intermediate block (intermediateBlocks[idx][i] of undefined)
xorSelected(enc, symbolId, indices) ==
  IF \E i \in 1..Len(indices) : indices[i] + 1 > Len(enc.intermediateBlocks)
  THEN TypeError
  ELSE [packet |->
          createPacket(enc.fileId, enc.K_prime, symbolId,
                       XorBlocksInto(Zeros(BLOCK_SIZE), enc.intermediateBlocks, indices),
                       FALSE)]

generateSymbol(enc, symbolId) ==
  IF symbolId = 0
  THEN [packet |-> createPacket(enc.fileId, enc.K_prime, 0, enc.metadataPayload, TRUE)]
  ELSE xorSelected(enc, symbolId, encoderIndices(enc, symbolId))

\* ---------------------------------------------------------------- decoder
\* crypto.subtle.digest('SHA-256', data) is a platform primitive; the model
\* keeps its interface (bytes in, 32 bytes out) with a position-striped
\* checksum, and states content claims on the bytes themselves.
\* the bytes at lo, lo + 32, ... up to hi, summed modulo 256
StripeTerms(lo, hi) == IF lo > hi THEN 0 ELSE (hi - lo) \div 32 + 1

RECURSIVE StripeSum(_, _, _)
StripeHalves(data, lo, hi, mid) ==
  (StripeSum(data, lo, mid - 32) + StripeSum(data, mid, hi)) % 256

StripeSum(data, lo, hi) ==
  IF StripeTerms(lo, hi) = 0 THEN 0
  ELSE IF StripeTerms(lo, hi) = 1 THEN data[lo]
  ELSE StripeHalves(data, lo, hi, lo + 32 * (StripeTerms(lo, hi) \div 2))

SHA256(data) ==
  Arr([j \in 1..32 |-> (StripeSum(data, j, Len(data)) + Len(data) + j) % 256])

\* decodedBlocks[idx] of a JavaScript array: undefined outside the array
blockAt(blocks, idx) ==
  IF blocks # NullBlocks /\ idx + 1 \in 1..Len(blocks) THEN blocks[idx + 1] ELSE NullBytes

\* decodedBlocks[idx] = value: an assignment past the end grows the array
setBlock(blocks, idx, value) ==
  IF idx + 1 <= Len(blocks) THEN [blocks EXCEPT ![idx + 1] = value]
  ELSE Arr([i \in 1..(idx + 1) |->
              IF i <= Len(blocks) THEN blocks[i]
              ELSE IF i = idx + 1 THEN value ELSE NullBytes])

\* new Array(n).fill(null)
NullArray(n) == Arr([i \in 1..n |-> NullBytes])

\* pendingSymbols.splice(i, 1), i counted from 1
RemoveAt(seq, i) == SubSeq(seq, 1, i - 1) \o SubSeq(seq, i + 1, Len(seq))

createDecoder ==
  [fileId |-> NullWord, K |-> NullNum, K_prime |-> NullNum, G |-> NullNum,
   parityMap |-> NullMap, metadata |-> NullRec, blockSize |-> 200,
   decodedBlocks |-> NullBlocks,
   solved |-> 0, solvedSource |-> 0, receivedSymbols |-> {}, pendingSymbols |-> <<>>]

RECURSIVE reduceFrom(_, _, _, _)
reduceFrom(blocks, indices, remaining, payload) ==
  IF indices = <<>> THEN [indices |-> remaining, payload |-> payload]
  ELSE IF blockAt(blocks, Head(indices)) # NullBytes
  THEN reduceFrom(blocks, Tail(indices), remaining,
                  XorBytes(payload, blockAt(blocks, Head(indices))))
  ELSE reduceFrom(blocks, Tail(indices), Append(remaining, Head(indices)), payload)

\* reduce that leaves the indices of known blocks in the symbol
reduce_keepsKnown(d, symbol) == symbol

reduce(d, symbol) == reduceFrom(d.decodedBlocks, symbol.indices, <<>>, symbol.payload)

\* propagate counts a newly decoded block as a source block
isSourceIndex_inclusive(d, idx) == d.K # NullNum /\ idx <= d.K

isSourceIndex(d, idx) == d.K # NullNum /\ idx < d.K

\* propagate counting every newly decoded block as a source block
decodeBlock_countsAll(d, idx, payload) ==
  IF blockAt(d.decodedBlocks, idx) = NullBytes
  THEN [d EXCEPT !.decodedBlocks = setBlock(@, idx, payload),
                 !.solved = @ + 1, !.solvedSource = @ + 1]
  ELSE d

\* a symbol reduced to the single index idx decodes that block, unless the
\* block is decoded already
decodeBlock(d, idx, payload) ==
  IF blockAt(d.decodedBlocks, idx) = NullBytes
  THEN [d EXCEPT !.decodedBlocks = setBlock(@, idx, payload),
                 !.solved = @ + 1,
                 !.solvedSource = IF isSourceIndex(d, idx) THEN @ + 1 ELSE @]
  ELSE d

\* pendingSymbols.splice(i, 1) on the decoder
dropPending(d, i) == [d EXCEPT !.pendingSymbols = RemoveAt(@, i)]

\* one downward scan of pendingSymbols, from position i to the first
RECURSIVE propagatePass(_, _, _)
propagateSymbol(d, i, changed, reduced) ==
  IF Len(reduced.indices) = 0
  THEN propagatePass(dropPending(d, i), i - 1, TRUE)
  ELSE IF Len(reduced.indices) = 1
  THEN propagatePass(dropPending(decodeBlock(d, reduced.indices[1], reduced.payload), i),
                     i - 1, TRUE)
  ELSE propagatePass([d EXCEPT !.pendingSymbols[i] = reduced], i - 1, changed)

propagatePass(d, i, changed) ==
  IF i < 1 THEN [d |-> d, changed |-> changed]
  ELSE propagateSymbol(d, i, changed, reduce(d, d.pendingSymbols[i]))

RECURSIVE propagate(_)
propagateAgain(r) == IF r.changed THEN propagate(r.d) ELSE r.d

propagate(d) == propagateAgain(propagatePass(d, Len(d.pendingSymbols), FALSE))

SelectUnknown(blocks, sourceIndices) ==
  SelectSeq(sourceIndices, LAMBDA i : blockAt(blocks, i) = NullBytes)

\* the source indices of a row other than missingIdx that are decoded
KnownOthers(blocks, sourceIndices, missingIdx) ==
  SelectSeq(sourceIndices, LAMBDA i : i # missingIdx /\ blockAt(blocks, i) # NullBytes)

\* the index parityRecovery solves in a row with one unknown
missingOf(unknowns, sourceIndices) == unknowns[1]

\* one scan of the parity rows, from row p (0-based) to the last
\* the parity block of row p with every known source block XORed out
recoverBlock(d, p, missingIdx) ==
  XorBlocksInto(blockAt(d.decodedBlocks, d.K + p), d.decodedBlocks,
                KnownOthers(d.decodedBlocks, d.parityMap[p + 1], missingIdx))

\* parity recovery counting a recovered block twice
recoverInto_countsTwice(d, p, missingIdx) ==
  [d EXCEPT !.decodedBlocks = setBlock(@, missingIdx, recoverBlock(d, p, missingIdx)),
            !.solved = @ + 2,
            !.solvedSource = @ + 1]

recoverInto(d, p, missingIdx) ==
  [d EXCEPT !.decodedBlocks = setBlock(@, missingIdx, recoverBlock(d, p, missingIdx)),
            !.solved = @ + 1,
            !.solvedSource = @ + 1]

RECURSIVE parityPass(_, _, _)
parityRow(d, p, progress, unknowns) ==
  IF blockAt(d.decodedBlocks, d.K + p) = NullBytes
  THEN parityPass(d, p + 1, progress)
  ELSE IF Len(unknowns) = 1
  THEN parityPass(recoverInto(d, p, missingOf(unknowns, d.parityMap[p + 1])), p + 1, TRUE)
  ELSE parityPass(d, p + 1, progress)

parityPass(d, p, progress) ==
  IF p >= Len(d.parityMap) THEN [d |-> d, progress |-> progress]
  ELSE parityRow(d, p, progress, SelectUnknown(d.decodedBlocks, d.parityMap[p + 1]))

RECURSIVE parityLoop(_)
parityAgain(r) == IF r.progress THEN parityLoop(propagate(r.d)) ELSE r.d

parityLoop(d) == parityAgain(parityPass(d, 0, FALSE))

parityRecovery(d) ==
  IF d.parityMap = NullMap \/ d.K = NullNum \/ d.K = 0 THEN d ELSE parityLoop(d)

isComplete(d) == d.K # NullNum /\ d.solvedSource = d.K

reset_keepsSeen(d) ==
  [d EXCEPT !.fileId = NullWord, !.K = NullNum, !.K_prime = NullNum, !.G = NullNum,
            !.parityMap = NullMap, !.metadata = NullRec, !.blockSize = 200,
            !.decodedBlocks = NullBlocks, !.solved = 0, !.solvedSource = 0,
            !.pendingSymbols = <<>>]

reset(d) ==
  [d EXCEPT !.fileId = NullWord, !.K = NullNum, !.K_prime = NullNum, !.G = NullNum,
            !.parityMap = NullMap, !.metadata = NullRec, !.blockSize = 200,
            !.decodedBlocks = NullBlocks, !.solved = 0, !.solvedSource = 0,
            !.receivedSymbols = {}, !.pendingSymbols = <<>>]

\* number of decoded slots among blocks[from..to-1] (0-based)
CountDecoded(blocks, from, to) ==
  Cardinality({i \in from..(to - 1) : blockAt(blocks, i) # NullBytes})

\* the block array of the new size, decoded entries carried over
resizeBlocks_dropsOld(oldBlocks, newK_prime) == NullArray(newK_prime)

resizeBlocks(oldBlocks, newK_prime) ==
  Arr([i \in 1..newK_prime |->
         IF i <= Min(Len(oldBlocks), newK_prime) /\ oldBlocks[i] # NullBytes
         THEN oldBlocks[i] ELSE NullBytes])

\* the metadata branch of receive, after a successful parse
\* K, G and the parity map are set from the metadata
setParity(d, meta, G, parityMap) ==
  [d EXCEPT !.metadata = meta, !.K = meta.K, !.G = G, !.parityMap = parityMap]

\* the metadata branch taking the new K' and keeping the block array it has
adoptKPrime_keepsArray(d, newK_prime) == [d EXCEPT !.K_prime = newK_prime]

\* the block array is resized when K' is not K + parityMap.length
adoptKPrime(d, newK_prime) ==
  IF d.K_prime # newK_prime
  THEN [d EXCEPT !.K_prime = newK_prime,
                 !.decodedBlocks =
                    resizeBlocks(IF @ = NullBlocks THEN <<>> ELSE @, newK_prime)]
  ELSE d

\* the metadata branch without its recount: both counters keep their values
recount_skipped(d) == d

\* solved and solvedSource are recounted over the block array
recount(d) ==
  [d EXCEPT !.solved = CountDecoded(d.decodedBlocks, 0, d.K_prime),
            !.solvedSource = CountDecoded(d.decodedBlocks, 0, Min(d.K, d.K_prime))]

acceptMetadataWith(d, meta, G) ==
  recount(adoptKPrime(setParity(d, meta, G, generateParityMap(meta.K, G)),
                      meta.K + Len(generateParityMap(meta.K, G))))

acceptMetadata(d, meta) == acceptMetadataWith(d, meta, calculateParityParams(meta.K).G)

\* the neighbour indices receive derives for a symbolId above K_prime, from
\* the degree roll and the generator after it
decoderFountain(roll, K_prime) ==
  IF isDegreeOne(roll.value)
  THEN <<nextInt(roll.rng, K_prime).value>>
  ELSE pickUnique(roll.rng, Min(FOUNTAIN_DEGREE, Max(1, K_prime - 1)), K_prime)

decoderIndices_offByOne(d, symbolId) ==
  IF symbolId <= d.K_prime
  THEN <<symbolId % d.K_prime>>
  ELSE decoderFountain(next(createPRNG(Xor32(d.fileId, ToU32(symbolId)))), d.K_prime)

\* the neighbour indices receive derives for a data packet
decoderIndices(d, symbolId) ==
  IF symbolId <= d.K_prime
  THEN <<(symbolId - 1) % d.K_prime>>
  ELSE decoderFountain(next(createPRNG(Xor32(d.fileId, ToU32(symbolId)))), d.K_prime)

\* pendingSymbols.push({ indices, payload })
pushSymbol(d, indices, payload) ==
  [d EXCEPT !.pendingSymbols = Append(@, [indices |-> indices, payload |-> payload])]

\* parity recovery runs when the decoder is not complete and has a parity map
tryParity(d) ==
  IF ~isComplete(d) /\ d.parityMap # NullMap THEN parityRecovery(d) ELSE d

\* the data branch of receive: push, propagate, parity recovery
acceptData(d, parsed) ==
  tryParity(propagate(pushSymbol(d, decoderIndices(d, parsed.symbolId), parsed.payload)))

\* the number of scans of pendingSymbols the while loop of propagate makes
RECURSIVE propagatePasses(_)
propagatePassesAfter(r) == IF r.changed THEN 1 + propagatePasses(r.d) ELSE 1

propagatePasses(d) ==
  propagatePassesAfter(propagatePass(d, Len(d.pendingSymbols), FALSE))

\* the number of scans of the parity rows the while loop of parityRecovery
\* makes, none when receive does not call it or it returns at its first line
RECURSIVE parityLoopPasses(_)
parityPassesAfter(r) == IF r.progress THEN 1 + parityLoopPasses(propagate(r.d)) ELSE 1

parityLoopPasses(d) == parityPassesAfter(parityPass(d, 0, FALSE))

parityPasses(d) ==
  IF isComplete(d) \/ d.parityMap = NullMap \/ d.K = NullNum \/ d.K = 0
  THEN 0 ELSE parityLoopPasses(d)

\* the checks receive makes before it accepts a packet
isNewSession_afterDuplicate(d, parsed) ==
  d.fileId # NullWord /\ parsed.fileId # d.fileId
    /\ parsed.symbolId \notin d.receivedSymbols

isNewSession(d, parsed) == d.fileId # NullWord /\ parsed.fileId # d.fileId

isDuplicate_never(d, parsed) == FALSE

isDuplicate(d, parsed) == parsed.symbolId \in d.receivedSymbols

\* the session check of receive: bind on the first packet
bindSession(d, parsed) ==
  IF d.fileId = NullWord
  THEN [d EXCEPT !.fileId = parsed.fileId, !.K_prime = parsed.k,
                 !.blockSize = parsed.blockSize,
                 !.decodedBlocks = NullArray(parsed.k)]
  ELSE d

\* receive(packet): the decoder afterwards and the value returned ("true",
\* "false" or "new_session"), or "RangeError" when the metadata parse raises
receiveMetadata(d, meta) ==
  IF meta = RangeError
  THEN [d |-> d, result |-> "RangeError"]
  ELSE [d |-> acceptMetadata(d, meta), result |-> "true"]

\* receive after the symbol id went into receivedSymbols
receiveNew(d, parsed) ==
  IF parsed.isMetadata \/ parsed.symbolId = 0
  THEN IF d.metadata = NullRec
       THEN receiveMetadata(d, parseMetadataPayload(parsed.payload))
       ELSE [d |-> d, result |-> "true"]
  ELSE [d |-> acceptData(d, parsed), result |-> "true"]

\* receivedSymbols.add(parsed.symbolId)
addSeen(d, parsed) == [d EXCEPT !.receivedSymbols = @ \cup {parsed.symbolId}]

\* the decoder of a data packet at line 244: bound, the id noted, the symbol
\* pushed on pendingSymbols
pushedData(b, parsed) == pushSymbol(b, decoderIndices(b, parsed.symbolId), parsed.payload)

\* receive after the session check
receiveBound(d, parsed) ==
  IF isDuplicate(d, parsed)
  THEN [d |-> d, result |-> "false"]
  ELSE receiveNew(addSeen(d, parsed), parsed)

receiveParsed(d, parsed) ==
  IF parsed = NullRec THEN [d |-> d, result |-> "false"]
  ELSE IF isNewSession(d, parsed) THEN [d |-> d, result |-> "new_session"]
  ELSE receiveBound(bindSession(d, parsed), parsed)

receive(d, packet) == receiveParsed(d, parsePacket(packet))

\* reconstruct(): the first K blocks laid out at i * blockSize, cut to fileSize
reconstruct(d) ==
  IF ~isComplete(d) THEN NullBytes
  ELSE Arr([j \in 1..d.metadata.fileSize |->
              LET i     == (j - 1) \div d.blockSize
                  off   == (j - 1) % d.blockSize
                  block == blockAt(d.decodedBlocks, i)
              IN  IF i < d.K /\ block # NullBytes /\ off < Len(block)
                  THEN block[off + 1] ELSE 0])

verifyData(d, data) ==
  IF data = NullBytes THEN FALSE ELSE SHA256(data) = d.metadata.hash

verify(d) == verifyData(d, reconstruct(d))

\* ---------------------------------------------------------------- sessions
\* the session id session s draws, (Math.random() * 0xFFFFFFFF) >>> 0: a
\* different 32-bit word for every session of a run
FileIdOf(s) == U32Of((s * 40503 + 17) % 65536, (s * 4660) % 65536)

\* file contents of the codec round-trip test: (i * 7 + 13) % 256
TestFile(size) == Arr([i \in 1..size |-> ((i - 1) * 7 + 13) % 256])

\* 'roundtrip.bin' and 'application/octet-stream' as code units
TestFilename == <<114, 111, 117, 110, 100, 116, 114, 105, 112, 46, 98, 105, 110>>
TestMimeType == <<97, 112, 112, 108, 105, 99, 97, 116, 105, 111, 110, 47,
                  111, 99, 116, 101, 116, 45, 115, 116, 114, 101, 97, 109>>

\* session s stages a file of s blocks (the last one a quarter full: 450
\* bytes for 3 blocks, as in the test)
Sessions == 1..MaxK

FileOf(s) == TestFile((s - 1) * BLOCK_SIZE + BLOCK_SIZE \div 4)

Encoders ==
  Arr([s \in Sessions |->
         createEncoder(FileIdOf(s), FileOf(s), TestFilename, TestMimeType,
                       SHA256(FileOf(s)))])

\* what generateSymbol(id) returns in session s, at [s][id + 1]
EmittedTable ==
  Arr([s \in Sessions |->
         Arr([i \in 1..(MaxEmitId + 1) |-> generateSymbol(Encoders[s], i - 1)])])

Emitted(s, id) == EmittedTable[s][id + 1]

\* the packet of session s with symbol id id, as the decoder parses it
PacketOf(s, id) == Emitted(s, id).packet

\* ------------------------------------------- a file of sixteen source blocks
\* the block count of the parity tests: G = 4, twelve parity rows, and the
\* advertised K' equals the number of intermediate blocks held
ParityTestK == 16

ParityEncoder ==
  createEncoder(FileIdOf(ParityTestK), FileOf(ParityTestK), TestFilename,
                TestMimeType, SHA256(FileOf(ParityTestK)))

\* generateSymbol(id) of that encoder for the metadata, every systematic id
\* and the two ids after them that a colour frame can hold, at [id + 1]
ParityEmitted ==
  Arr([i \in 1..(ParityEncoder.K_prime + 3) |-> generateSymbol(ParityEncoder, i - 1)])

\* state.encoder of the sender, named by the file staged
stagedEncoder(e) == IF e = ParityTestK THEN ParityEncoder ELSE Encoders[e]

\* state.encoder.generateSymbol(id)
generated(e, id) ==
  IF e # ParityTestK THEN Emitted(e, id)
  ELSE IF id + 1 <= Len(ParityEmitted) THEN ParityEmitted[id + 1]
  ELSE generateSymbol(ParityEncoder, id)


\* ----------------------------------------------------------------- sender
METADATA_INTERVAL == 10
QR_MODE_PCCC == 1
QR_MODE_PALETTE == 2

Modes == {QR_MODE_BW, QR_MODE_PCCC, QR_MODE_PALETTE}

\* state.encoder = null; otherwise the field names the staged file's encoder
NoEncoder == 0

\* the sender's state object as the module creates it; frameCount is kept
\* modulo METADATA_INTERVAL, the only way senderTick reads it; reading holds
\* the files whose processFile call is suspended at an await
senderState ==
  [encoder |-> NoEncoder, intervalId |-> NullNum, symbolId |-> 1,
   isPaused |-> FALSE, isSending |-> FALSE, frameCount |-> 0,
   mode |-> QR_MODE_BW, reading |-> {}]

\* what a handler drew: the symbol ids of the frame, or the error that left
\* the handler before it drew
NoRender == [ids |-> <<>>, error |-> "none"]
Drawn(ids) == [ids |-> ids, error |-> "none"]
Thrown == [ids |-> <<>>, error |-> "TypeError"]

\* the canvas: hidden, or the frame drawn last
NoCanvas == [session |-> NoEncoder, ids |-> <<>>]

symbolsPerFrame(mode) == IF mode = QR_MODE_BW THEN 1 ELSE 3

\* the symbol ids renderSymbol(symbolId) generates packets for
frameIds(mode, symbolId) ==
  IF mode = QR_MODE_BW THEN <<symbolId>>
  ELSE IF symbolId = 0 THEN <<0, 0, 0>>
  ELSE <<symbolId, symbolId + 1, symbolId + 2>>

\* state.encoder.generateSymbol raises for one of the ids
renderFails(encoder, ids) ==
  \/ encoder = NoEncoder
  \/ \E i \in 1..Len(ids) : generated(encoder, ids[i]) = TypeError

renderSymbol(encoder, ids) == IF renderFails(encoder, ids) THEN Thrown ELSE Drawn(ids)

\* state.symbolId += symbolsPerFrame, back to 1 after K_prime
wrapSymbolId_never(st, n) == n

wrapSymbolId(st, n) ==
  IF st.encoder # NoEncoder /\ n > stagedEncoder(st.encoder).K_prime THEN 1 ELSE n

advance(st) ==
  [st EXCEPT !.symbolId = wrapSymbolId(st, st.symbolId + symbolsPerFrame(st.mode))]

countFrame(st) == [st EXCEPT !.frameCount = (@ + 1) % METADATA_INTERVAL]

\* the data branch of senderTick: an exception of renderSymbol leaves the
\* handler before state.symbolId is advanced
tickData(st, out) ==
  [state |-> IF out = Thrown THEN st ELSE advance(st), rendered |-> out]

\* senderTick after state.frameCount++
tickFrame(st) ==
  IF st.frameCount % METADATA_INTERVAL = 0
  THEN [state |-> st, rendered |-> renderSymbol(st.encoder, frameIds(st.mode, 0))]
  ELSE tickData(st, renderSymbol(st.encoder, frameIds(st.mode, st.symbolId)))

senderTick(st) ==
  IF st.isPaused THEN [state |-> st, rendered |-> NoRender]
  ELSE tickFrame(countFrame(st))

\* the canvas after a handler that drew out (or raised before drawing)
draw(c, encoder, out) ==
  IF out.ids = <<>> THEN c ELSE [session |-> encoder, ids |-> out.ids]

\* ------------------------------------------------------------------ state
VARIABLES
  dec,      \* the receiver's decoder (state.decoder)
  last,     \* the last call made on it: kind of input, whether its symbol id
            \* had been seen, and the value returned
  emitted,  \* the last generateSymbol call: session, id and what it returned
  sender,   \* the sender module's state object
  timers,   \* the number of intervals armed with senderTick
  canvas,   \* the frame on the sender's canvas
  rendered, \* what the last sender handler drew
  pre,      \* the last precoder test: its input and what the precoder returned
  host      \* the receiver host: its scanning flag, status view and stored file

senderVars == <<sender, timers, canvas, rendered>>

vars == <<dec, last, emitted, sender, timers, canvas, rendered, pre, host>>

\* the session a decoder is bound to
SessionOf(d) == CHOOSE s \in Sessions : FileIdOf(s) = d.fileId

\* how a parsed packet relates to the decoder that is about to receive it
ClassOf(d, parsed) ==
  IF parsed = NullRec THEN "rejected"
  ELSE IF d.fileId # NullWord /\ parsed.fileId # d.fileId THEN "foreign"
  ELSE IF parsed.symbolId \in d.receivedSymbols THEN "duplicate"
  ELSE IF parsed.isMetadata \/ parsed.symbolId = 0 THEN "metadata"
  ELSE "data"

\* whether the decoder holds the symbol id of a parsed packet in its seen set
SeenId(d, parsed) == parsed # NullRec /\ parsed.symbolId \in d.receivedSymbols

LastCall(d, parsed, result) ==
  [class |-> ClassOf(d, parsed), seen |-> SeenId(d, parsed), result |-> result]

NoCall == [class |-> "create", seen |-> FALSE, result |-> "none"]

\* packets the senders put on the channel: every symbol generateSymbol
\* returns, in any order, any number of times
OnChannel(s, id) == Emitted(s, id) # TypeError

\* a run stops feeding new symbols to a decoder that holds MaxUnique of them
WithinBound(d, parsed) ==
  \/ ClassOf(d, parsed) \in {"rejected", "foreign", "duplicate"}
  \/ Cardinality(d.receivedSymbols) < MaxUnique

\* a receiver host before its camera starts: the scanning view, no decoder,
\* nothing stored for download, no verify() awaited, nothing raised
NoHost ==
  [kind |-> "none", isScanning |-> FALSE, hasDecoder |-> FALSE,
   status |-> "scanning", stored |-> NullBytes, hashCheck |-> "none",
   verifying |-> "none", interrupted |-> FALSE, raised |-> "none"]

\* the modules as loaded: no decoder call, no sender handler has run
Loaded ==
  /\ dec = createDecoder
  /\ last = NoCall
  /\ emitted = NullRec
  /\ sender = senderState
  /\ timers = 0
  /\ canvas = NoCanvas
  /\ rendered = NoRender
  /\ host = NoHost

Init == Loaded /\ pre = NullRec

\* the decoder and the call record after a call that returned r
Returned(parsed, r) ==
  /\ WithinBound(dec, parsed)
  /\ dec' = r.d
  /\ last' = LastCall(dec, parsed, r.result)
  /\ UNCHANGED <<emitted, senderVars, pre, host>>

\* state.decoder.receive(packet) by a host that ignores the value returned
\* (hdmi-uvc-receiver processFrame, the codec tests)
ReceiveOut(out) ==
  /\ out # TypeError
  /\ Returned(parsePacket(out.packet), receive(dec, out.packet))

Receive(s, id) == ReceiveOut(Emitted(s, id))

\* receiver.js processPacket: receive, and on 'new_session' reset and re-feed
refeed(r, packet) ==
  IF r.result = "new_session" THEN receive(reset(r.d), packet) ELSE r

processPacket(d, packet) == refeed(receive(d, packet), packet)

ProcessPacketOut(out) ==
  /\ out # TypeError
  /\ Returned(parsePacket(out.packet), processPacket(dec, out.packet))

ProcessPacket(s, id) == ProcessPacketOut(Emitted(s, id))

\* the host drops its decoder and creates a new one (startScanning)
NewDecoder ==
  /\ dec # createDecoder
  /\ dec' = createDecoder
  /\ last' = NoCall
  /\ UNCHANGED <<emitted, senderVars, pre, host>>

Next ==
  \/ \E s \in Sessions, id \in 0..MaxSymbolId : Receive(s, id)
  \/ \E s \in Sessions, id \in 0..MaxSymbolId : ProcessPacket(s, id)
  \/ NewDecoder

Spec == Init /\ [][Next]_vars

\* --------------------------------------------------- encoder-only behaviour
\* createEncoder(...).generateSymbol(symbolId) for any staged file and id
GenerateSymbol(s, id) ==
  /\ emitted' = [session |-> s, symbolId |-> id, out |-> Emitted(s, id)]
  /\ UNCHANGED <<dec, last, senderVars, pre, host>>

NextEnc == \E s \in Sessions, id \in 0..MaxEmitId : GenerateSymbol(s, id)

SpecEnc == Init /\ [][NextEnc]_vars

TypeOK == dec.solved \in Nat

\* ---------------------------------------------------------- sender handlers
\* a handler left the sender in r.state having drawn r.rendered
Handled(r, armed) ==
  /\ sender' = r.state
  /\ rendered' = r.rendered
  /\ canvas' = draw(canvas, r.state.encoder, r.rendered)
  /\ timers' = armed
  /\ UNCHANGED <<dec, last, emitted, pre, host>>

\* processFile(file), reached only while no file is staged (handleDrop,
\* handleDropZoneClick): create the encoder and show the metadata frame
ProcessFile(s) ==
  /\ sender.encoder = NoEncoder
  /\ Handled([state |-> [sender EXCEPT !.encoder = s, !.symbolId = 1,
                                       !.frameCount = 0, !.isPaused = FALSE,
                                       !.isSending = FALSE],
              rendered |-> renderSymbol(s, frameIds(sender.mode, 0))],
             timers)

\* startSending: the initial tick, then setInterval; an exception of the
\* initial tick leaves before the interval is armed
started(r) ==
  IF r.rendered = Thrown THEN r
  ELSE [r EXCEPT !.state = [r.state EXCEPT !.intervalId = 1]]

StartSending ==
  /\ sender.encoder # NoEncoder
  /\ ~sender.isSending /\ ~sender.isPaused
  /\ Handled(started(senderTick([sender EXCEPT !.isPaused = FALSE, !.isSending = TRUE])),
             IF senderTick([sender EXCEPT !.isPaused = FALSE, !.isSending = TRUE]).rendered = Thrown
             THEN timers ELSE timers + 1)

\* clearInterval(state.intervalId)
cleared(st, armed) == IF st.intervalId # NullNum THEN armed - 1 ELSE armed

PauseSending ==
  /\ sender.encoder # NoEncoder
  /\ sender.isSending /\ ~sender.isPaused
  /\ Handled([state |-> [sender EXCEPT !.isPaused = TRUE, !.intervalId = NullNum],
              rendered |-> NoRender],
             cleared(sender, timers))

ResumeSending_rewinds ==
  /\ sender.encoder # NoEncoder
  /\ sender.isPaused
  /\ Handled([state |-> [sender EXCEPT !.isPaused = FALSE, !.intervalId = 1,
                                       !.symbolId = 1],
              rendered |-> NoRender],
             timers + 1)

ResumeSending ==
  /\ sender.encoder # NoEncoder
  /\ sender.isPaused
  /\ Handled([state |-> [sender EXCEPT !.isPaused = FALSE, !.intervalId = 1],
              rendered |-> NoRender],
             timers + 1)

\* the action button: Pause while sending, Resume while paused, else Start
HandleActionClick ==
  \/ PauseSending
  \/ ResumeSending
  \/ StartSending

\* the stop button (enabled while a file is staged): clear the interval,
\* drop the file and hide the canvas
StopSending ==
  /\ sender.encoder # NoEncoder
  /\ sender' = [senderState EXCEPT !.mode = sender.mode,
                                  !.reading = sender.reading]
  /\ rendered' = NoRender
  /\ canvas' = NoCanvas
  /\ timers' = cleared(sender, timers)
  /\ UNCHANGED <<dec, last, emitted, pre, host>>

\* a mode button: ignored while sending; otherwise set the mode and, with a
\* file staged, re-encode it and show the metadata frame
HandleModeChange(m) ==
  /\ ~sender.isSending
  /\ Handled([state |-> [sender EXCEPT !.mode = m, !.symbolId = 1, !.frameCount = 0],
              rendered |-> IF sender.encoder = NoEncoder THEN NoRender
                           ELSE renderSymbol(sender.encoder, frameIds(m, 0))],
             timers)

\* an armed interval fires senderTick
SenderTick ==
  /\ timers > 0
  /\ Handled(senderTick(sender), timers)

NextSender ==
  \/ \E s \in Sessions : ProcessFile(s)
  \/ HandleActionClick
  \/ StopSending
  \/ \E m \in Modes : HandleModeChange(m)
  \/ SenderTick

\* the interval keeps firing senderTick while it is armed
SpecSender == Init /\ [][NextSender]_vars /\ WF_vars(SenderTick)

\* the sender with the file of sixteen blocks, whose encoder holds every
\* block it advertises
NextSenderWrap ==
  \/ ProcessFile(ParityTestK)
  \/ HandleActionClick
  \/ StopSending
  \/ \E m \in Modes : HandleModeChange(m)
  \/ SenderTick

SpecSenderWrap == Init /\ [][NextSenderWrap]_vars /\ WF_vars(SenderTick)

\* ------------------------------------------- sender, file reads awaited
\* processFile is an async function: it awaits file.arrayBuffer() and the
\* SHA-256 digest, and stages the encoder in a later task.

\* handleFileSelect and handleDrop up to the first await of processFile; the
\* drop zone lets a file in only while no encoder is staged
SelectFile(s) ==
  /\ sender.encoder = NoEncoder
  /\ s \notin sender.reading
  /\ timers < MaxTimers
  /\ Handled([state |-> [sender EXCEPT !.reading = @ \cup {s}],
              rendered |-> NoRender],
             timers)

\* processFile after its awaits: stage the encoder, reset the counters and
\* flags, show the metadata frame; state.intervalId is left as it is
FileRead(s) ==
  /\ s \in sender.reading
  /\ Handled([state |-> [sender EXCEPT !.reading = @ \ {s}, !.encoder = s,
                                       !.symbolId = 1, !.frameCount = 0,
                                       !.isPaused = FALSE, !.isSending = FALSE],
              rendered |-> renderSymbol(s, frameIds(sender.mode, 0))],
             timers)

\* the speed slider: while an interval is armed and the sender is not
\* paused, clear it and arm one with the new period
HandleSpeedPresetChange ==
  /\ Handled([state |-> sender, rendered |-> NoRender],
             IF sender.intervalId # NullNum /\ ~sender.isPaused
             THEN cleared(sender, timers) + 1 ELSE timers)

NextSenderFiles ==
  \/ \E s \in Sessions : SelectFile(s)
  \/ \E s \in Sessions : FileRead(s)
  \/ HandleActionClick
  \/ StopSending
  \/ \E m \in Modes : HandleModeChange(m)
  \/ HandleSpeedPresetChange
  \/ SenderTick

SpecSenderFiles == Init /\ [][NextSenderFiles]_vars /\ WF_vars(SenderTick)

\* ----------------------------------------------- HDMI-UVC sender frame loop
\* the HDMI-UVC sender's state object as its module creates it; frameCount
\* is kept as zero or not, the only way renderFrame reads it
hdmiSenderState ==
  [encoder |-> NoEncoder, fileData |-> NoEncoder, timerId |-> NullNum,
   isSending |-> FALSE, isPaused |-> FALSE, symbolId |-> 1, frameCount |-> 0]

\* files dropped on the HDMI-UVC sender
HdmiFiles == Sessions \cup {ParityTestK}

\* state.symbolId++, back to 1 after K_prime
hdmiAdvance(st) ==
  [st EXCEPT !.symbolId = IF @ + 1 > stagedEncoder(st.encoder).K_prime THEN 1 ELSE @ + 1,
             !.frameCount = 1,
             !.timerId = 1]

\* the generateSymbol call of a frame
hdmiGenerated(st) ==
  [session |-> st.encoder, symbolId |-> st.symbolId,
   out |-> generated(st.encoder, st.symbolId)]

\* renderFrame with `armed` timeouts pending: nothing unless sending; an
\* exception of generateSymbol is caught and no timeout is scheduled
renderFrame(st, last_emitted, armed) ==
  IF ~st.isSending \/ st.isPaused \/ st.encoder = NoEncoder
  THEN [state |-> st, emitted |-> last_emitted, armed |-> armed]
  ELSE IF generated(st.encoder, st.symbolId) = TypeError
  THEN [state |-> st, emitted |-> hdmiGenerated(st), armed |-> armed]
  ELSE [state |-> hdmiAdvance(st), emitted |-> hdmiGenerated(st), armed |-> armed + 1]

HdmiHandled(r) ==
  /\ sender' = r.state
  /\ emitted' = r.emitted
  /\ timers' = r.armed
  /\ UNCHANGED <<dec, last, canvas, rendered, pre, host>>

\* clearTimeout(state.timerId): a timeout that has fired is not pending
hdmiCleared(st, armed) ==
  IF st.timerId # NullNum /\ armed > 0 THEN armed - 1 ELSE armed

\* processFile, reached while no file is staged: keep the file for Start
HdmiProcessFile(s) ==
  /\ sender.fileData = NoEncoder
  /\ HdmiHandled([state |-> [sender EXCEPT !.fileData = s, !.isSending = FALSE,
                                           !.isPaused = FALSE],
                  emitted |-> emitted, armed |-> timers])

\* startSending: create the encoder, symbol id 1, the first frame
HdmiStartSending ==
  /\ sender.fileData # NoEncoder
  /\ ~sender.isSending /\ ~sender.isPaused
  /\ HdmiHandled(renderFrame([sender EXCEPT !.encoder = sender.fileData,
                                            !.isSending = TRUE, !.isPaused = FALSE,
                                            !.symbolId = 1, !.frameCount = 0],
                             emitted, timers))

HdmiPauseSending ==
  /\ sender.fileData # NoEncoder
  /\ sender.isSending /\ ~sender.isPaused
  /\ HdmiHandled([state |-> [sender EXCEPT !.isPaused = TRUE, !.timerId = NullNum],
                  emitted |-> emitted, armed |-> hdmiCleared(sender, timers)])

HdmiResumeSending ==
  /\ sender.fileData # NoEncoder
  /\ sender.isPaused
  /\ HdmiHandled(renderFrame([sender EXCEPT !.isPaused = FALSE], emitted, timers))

\* the action button: Pause while sending, Resume while paused, else Start
HdmiHandleActionClick ==
  \/ HdmiPauseSending
  \/ HdmiResumeSending
  \/ HdmiStartSending

\* the stop button (enabled while a file is staged)
HdmiStopSending ==
  /\ sender.fileData # NoEncoder
  /\ HdmiHandled([state |-> hdmiSenderState, emitted |-> emitted,
                  armed |-> hdmiCleared(sender, timers)])

\* a pending timeout fires renderFrame
HdmiRenderTimeout ==
  /\ timers > 0
  /\ HdmiHandled(renderFrame(sender, emitted, timers - 1))

NextHdmiSender ==
  \/ \E s \in HdmiFiles : HdmiProcessFile(s)
  \/ HdmiHandleActionClick
  \/ HdmiStopSending
  \/ HdmiRenderTimeout

InitHdmiSender ==
  /\ dec = createDecoder
  /\ last = NoCall
  /\ emitted = NullRec
  /\ sender = hdmiSenderState
  /\ timers = 0
  /\ canvas = NoCanvas
  /\ rendered = NoRender
  /\ host = NoHost
  /\ pre = NullRec

\* a pending timeout fires when its delay has passed
SpecHdmiSender == InitHdmiSender /\ [][NextHdmiSender]_vars /\ WF_vars(HdmiRenderTimeout)

\* ------------------------------------------------------------ precoder tests
\* source blocks of testParityRecovery, block[j] = (i * 17 + j * 13) % 256,
\* and the same shifted by a multiple of 29
testBlocks(K, fill) ==
  Arr([i \in 1..K |->
         Arr([j \in 1..BLOCK_SIZE |-> ((i - 1) * 17 + (j - 1) * 13 + fill * 29) % 256])])

\* the inputs of the precoder tests: K for testParityMap; K, the source block
\* removed and the filling for testParityRecovery
TestInputs ==
  {[op |-> "input", test |-> "map", K |-> K, removedIdx |-> 0, fill |-> 0] :
     K \in 1..MaxParityK}
  \cup {[op |-> "input", test |-> "recover", K |-> K, removedIdx |-> r, fill |-> f] :
          K \in 1..MaxParityK, r \in 0..(MaxParityK - 1), f \in 0..MaxFill}

InitPrecode == Loaded /\ pre \in {t \in TestInputs : t.removedIdx < t.K}

\* testParityMap: generateParityMap(K, G) for the G of calculateParityParams
TestParityMap(K) ==
  /\ pre = [op |-> "input", test |-> "map", K |-> K, removedIdx |-> 0, fill |-> 0]
  /\ pre' = [op |-> "map", K |-> K,
             parityMap |-> generateParityMap(K, calculateParityParams(K).G)]
  /\ UNCHANGED <<dec, last, emitted, senderVars, host>>

\* [...sourceBlocks, ...parityBlocks] with decodedBlocks[removedIdx] = null
allButOne(sourceBlocks, parityBlocks, removedIdx) ==
  [sourceBlocks \o parityBlocks EXCEPT ![removedIdx + 1] = NoBlock]

recoveryOf(sourceBlocks, K, parityMap, removedIdx) ==
  recoverWithParity(allButOne(sourceBlocks, generateParityBlocks(sourceBlocks, parityMap),
                              removedIdx),
                    K, parityMap)

tested(K, removedIdx, fill, removedBlock, result) ==
  [op |-> "recover", K |-> K, removedIdx |-> removedIdx, fill |-> fill,
   removedBlock |-> removedBlock,
   restored |-> result.decodedBlocks[removedIdx + 1],
   recovered |-> result.totalRecovered]

\* testParityRecovery for any K, removed source block and filling
TestParityRecovery(K, removedIdx, fill) ==
  /\ pre = [op |-> "input", test |-> "recover", K |-> K, removedIdx |-> removedIdx,
            fill |-> fill]
  /\ pre' = tested(K, removedIdx, fill, testBlocks(K, fill)[removedIdx + 1],
                   recoveryOf(testBlocks(K, fill), K,
                              generateParityMap(K, calculateParityParams(K).G),
                              removedIdx))
  /\ UNCHANGED <<dec, last, emitted, senderVars, host>>

NextPrecode ==
  \/ \E K \in 1..MaxParityK : TestParityMap(K)
  \/ \E K \in 1..MaxParityK, fill \in 0..MaxFill :
       \E removedIdx \in 0..(K - 1) : TestParityRecovery(K, removedIdx, fill)

SpecPrecode == InitPrecode /\ [][NextPrecode]_vars

\* --------------------------------------------------------- damaged packets
\* what a channel that damages frames can hand to receive: a packet cut
\* below the header length or to nothing, a packet with another protocol
\* version, and a metadata packet whose mime type length byte declares 250
\* bytes, which runs past the payload
Damages == {"short", "empty", "version", "version0", "lengths"}

overflowLengths(payload) == [payload EXCEPT ![2 + payload[1]] = 250]

Damaged(packet, kind) ==
  CASE kind = "short"    -> SubSeq(packet, 1, 15)
    [] kind = "empty"    -> <<>>
    [] kind = "version"  -> [packet EXCEPT ![1] = PROTOCOL_VERSION + 1]
    [] kind = "version0" -> [packet EXCEPT ![1] = 0]
    [] kind = "lengths"  ->
         SubSeq(packet, 1, 16) \o overflowLengths(SubSeq(packet, 17, Len(packet)))

\* state.decoder.receive(packet) of a damaged packet; the host's try/catch
\* (scanFrame) absorbs what receive raises
ReceivePacket(packet) == Returned(parsePacket(packet), receive(dec, packet))

ReceiveDamaged(s, id, kind) ==
  /\ OnChannel(s, id)
  /\ kind = "lengths" => id = 0
  /\ ReceivePacket(Damaged(PacketOf(s, id), kind))

NextNoisy ==
  \/ \E s \in Sessions, id \in 0..MaxNoisyId : Receive(s, id)
  \/ \E s \in Sessions, id \in 0..MaxNoisyId, kind \in Damages :
       ReceiveDamaged(s, id, kind)
  \/ NewDecoder

SpecNoisy == Init /\ [][NextNoisy]_vars

\* ------------------------------------------------- sender, screen, receiver
\* scanFrame in BW mode: the receiver reads the frame on the sender's canvas
\* and hands the packet to processPacket; it stops scanning once the decoder
\* is complete. A frame nobody scans before the next one is drawn is lost.
Scanned(parsed, r) ==
  /\ dec' = r.d
  /\ last' = LastCall(dec, parsed, r.result)
  /\ UNCHANGED <<emitted, senderVars, pre, host>>

Scan(s, id) ==
  /\ canvas = [session |-> s, ids |-> <<id>>]
  /\ ~isComplete(dec)
  /\ Scanned(parsePacket(PacketOf(s, id)), processPacket(dec, PacketOf(s, id)))

NextLink ==
  \/ \E s \in Sessions : ProcessFile(s)
  \/ StartSending
  \/ SenderTick
  \/ \E s \in Sessions, id \in 0..MaxSymbolId : Scan(s, id)

\* the interval keeps firing senderTick while it is armed
SpecLink == Init /\ [][NextLink]_vars /\ WF_vars(SenderTick)

\* ------------------------------------- the codec fed sixteen source blocks
SourceIds == 1..ParityEncoder.K
ParityIds == (ParityEncoder.K + 1)..ParityEncoder.K_prime

\* source symbols with an id below id that the decoder has not received
skippedBelow(d, id) == {i \in SourceIds : i < id} \ d.receivedSymbols

\* the feed: each symbol once, data symbols in increasing id with at most
\* two source symbols left out, the metadata packet at any point
inFeedOrder(d, id) ==
  /\ id \notin d.receivedSymbols
  /\ id # 0 => /\ \A i \in d.receivedSymbols : i < id
               /\ Cardinality(skippedBelow(d, id)) <= 2
               /\ (id \in ParityIds => \A i \in ParityIds : i < id => i \in d.receivedSymbols)

FedOut(parsed, r) ==
  /\ dec' = r.d
  /\ last' = LastCall(dec, parsed, r.result)
  /\ UNCHANGED <<emitted, senderVars, pre, host>>

FeedPacket(packet) == FedOut(parsePacket(packet), receive(dec, packet))

\* decoder.receive(encoder.generateSymbol(id)) in the feed loop
FeedParity(id) ==
  /\ inFeedOrder(dec, id)
  /\ FeedPacket(ParityEmitted[id + 1].packet)

NextParity == \E id \in 0..ParityEncoder.K_prime : FeedParity(id)

SpecParity == Init /\ [][NextParity]_vars

\* --------------------------------------------------------- receiver hosts
\* receiver.js startScanning: a fresh decoder, nothing stored, scanning view
qrStarted ==
  [kind |-> "qr", isScanning |-> TRUE, hasDecoder |-> TRUE,
   status |-> "scanning", stored |-> NullBytes, hashCheck |-> "none",
   verifying |-> "none", interrupted |-> FALSE, raised |-> "none"]

\* hdmi-uvc-receiver.js resetReceiver then startScanning: no decoder yet
hdmiStarted ==
  [kind |-> "hdmi", isScanning |-> TRUE, hasDecoder |-> FALSE,
   status |-> "scanning", stored |-> NullBytes, hashCheck |-> "none",
   verifying |-> "none", interrupted |-> FALSE, raised |-> "none"]

\* the user opens (or resets) one of the two receivers while none is scanning
StartHost(h) ==
  /\ ~host.isScanning
  /\ host' = h
  /\ dec' = createDecoder
  /\ last' = NoCall
  /\ UNCHANGED <<emitted, senderVars, pre>>

\* updateReceiverStats: the receiving view once metadata and K are known;
\* processPacket shows the scanning view when it resets for a new session
qrStatus(h, first, d) ==
  IF d.metadata # NullRec /\ d.K > 0 THEN "receiving"
  ELSE IF first = "new_session" THEN "scanning" ELSE h.status

\* onReceiveComplete: stopScanning, then the blob and the complete view when
\* verify() holds, else the decoder and the blob are dropped
onReceiveComplete(h, d) ==
  IF verify(d)
  THEN [host |-> [h EXCEPT !.isScanning = FALSE, !.stored = reconstruct(d),
                           !.status = "complete", !.hashCheck = "match"],
        d |-> d]
  ELSE [host |-> [h EXCEPT !.isScanning = FALSE, !.hasDecoder = FALSE,
                           !.stored = NullBytes, !.status = "scanning",
                           !.hashCheck = "mismatch"],
        d |-> createDecoder]

\* scanFrame after processPacket returned r (or raised inside the try)
qrScanned(h, first, r) ==
  IF r.result = "RangeError" THEN [host |-> h, d |-> r.d]
  ELSE IF isComplete(r.d)
  THEN onReceiveComplete([h EXCEPT !.status = qrStatus(h, first, r.d)], r.d)
  ELSE [host |-> [h EXCEPT !.status = qrStatus(h, first, r.d)], d |-> r.d]

\* handleComplete: the file is reconstructed, hashed, and stored
hashMatch(d, fileData) == SHA256(fileData) = d.metadata.hash

handleComplete(h, d) ==
  [h EXCEPT !.isScanning = FALSE,
            !.hashCheck = IF hashMatch(d, reconstruct(d)) THEN "match" ELSE "mismatch",
            !.stored = reconstruct(d),
            !.status = "complete"]

\* processFrame with a frame whose CRC is valid and whose packet parses:
\* the decoder is created on the first such frame
hdmiReceived(h, r) ==
  IF r.result = "RangeError"
  THEN [host |-> [h EXCEPT !.hasDecoder = TRUE, !.status = "receiving",
                           !.isScanning = FALSE],
        d |-> r.d]
  ELSE IF isComplete(r.d)
  THEN [host |-> handleComplete([h EXCEPT !.hasDecoder = TRUE,
                                          !.status = "receiving"], r.d),
        d |-> r.d]
  ELSE [host |-> [h EXCEPT !.hasDecoder = TRUE, !.status = "receiving"], d |-> r.d]

hdmiFrame(h, d, packet) ==
  IF parsePacket(packet) = NullRec THEN [host |-> h, d |-> d]
  ELSE hdmiReceived(h, receive(d, packet))

HostStep(parsed, result, r) ==
  /\ WithinBound(dec, parsed)
  /\ host' = r.host
  /\ dec' = r.d
  /\ last' = LastCall(dec, parsed, result)
  /\ UNCHANGED <<emitted, senderVars, pre>>

QrScanStep(packet, first, r) == HostStep(parsePacket(packet), r.result, qrScanned(host, first, r))

\* scanFrame decodes a QR code carrying the packet
QrScanFrame(s, id) ==
  /\ host.kind = "qr" /\ host.isScanning
  /\ OnChannel(s, id)
  /\ QrScanStep(PacketOf(s, id), receive(dec, PacketOf(s, id)).result,
                processPacket(dec, PacketOf(s, id)))

HdmiStep(packet, r) == HostStep(parsePacket(packet), r.result, hdmiFrame(host, dec, packet))

\* processFrame captures a frame carrying the packet
HdmiProcessFrame(s, id) ==
  /\ host.kind = "hdmi" /\ host.isScanning
  /\ OnChannel(s, id)
  /\ HdmiStep(PacketOf(s, id), receive(dec, PacketOf(s, id)))

NextHost ==
  \/ StartHost(qrStarted)
  \/ StartHost(hdmiStarted)
  \/ \E s \in Sessions, id \in 0..MaxSymbolId : QrScanFrame(s, id)
  \/ \E s \in Sessions, id \in 0..MaxSymbolId : HdmiProcessFrame(s, id)

SpecHost == Init /\ [][NextHost]_vars

\* ------------------------------------------- QR receiver, verify() awaited
\* onReceiveComplete is an async function: it runs to `await
\* state.decoder.verify()`, and its rest runs in a later task, after whatever
\* handlers the event loop ran in between. host.verifying holds the value
\* the awaited verify() resolves to, host.interrupted whether resetReceiver
\* ran since the await began.

\* startScanning after its awaits: a new decoder, the scanning view; a
\* verification still awaited stays awaited
qrRestarted(h) ==
  [qrStarted EXCEPT !.verifying = h.verifying, !.interrupted = h.interrupted,
                    !.raised = h.raised]

QrStartScanning ==
  /\ ~host.isScanning
  /\ host' = qrRestarted(host)
  /\ dec' = createDecoder
  /\ last' = NoCall
  /\ UNCHANGED <<emitted, senderVars, pre>>

\* resetReceiver (first half of restartReceiver, the Reset and Receive
\* another buttons): state.decoder = null, the scanning view
qrReset(h) ==
  [h EXCEPT !.isScanning = FALSE, !.hasDecoder = FALSE, !.stored = NullBytes,
            !.status = "scanning", !.interrupted = (h.verifying # "none")]

QrResetReceiver ==
  /\ host.kind = "qr"
  /\ host' = qrReset(host)
  /\ dec' = createDecoder
  /\ last' = NoCall
  /\ UNCHANGED <<emitted, senderVars, pre>>

\* onReceiveComplete up to its await: stopScanning, verify() started on the
\* decoder held now
verifyBegun(h, d) ==
  [h EXCEPT !.isScanning = FALSE, !.interrupted = FALSE,
            !.verifying = IF verify(d) THEN "match" ELSE "mismatch"]

\* scanFrame after processPacket returned r (or raised inside the try)
qrScannedAsync(h, first, r) ==
  IF r.result = "RangeError" THEN [host |-> h, d |-> r.d]
  ELSE IF isComplete(r.d)
  THEN [host |-> verifyBegun([h EXCEPT !.status = qrStatus(h, first, r.d)], r.d),
        d |-> r.d]
  ELSE [host |-> [h EXCEPT !.status = qrStatus(h, first, r.d)], d |-> r.d]

QrScanAsyncStep(packet, first, r) ==
  /\ isComplete(r.d) => host.verifying = "none"
  /\ HostStep(parsePacket(packet), r.result, qrScannedAsync(host, first, r))

\* scanFrame decodes a QR code carrying the packet
QrScanFrameAsync(s, id) ==
  /\ host.kind = "qr" /\ host.isScanning /\ host.hasDecoder
  /\ OnChannel(s, id)
  /\ QrScanAsyncStep(PacketOf(s, id), receive(dec, PacketOf(s, id)).result,
                     processPacket(dec, PacketOf(s, id)))

\* the rest of onReceiveComplete with verify() true: state.decoder
\* .reconstruct() and .metadata of the decoder held now; a null decoder or
\* null metadata raises a TypeError
verifiedTrue(h, d) ==
  IF ~h.hasDecoder \/ d.metadata = NullRec
  THEN [h EXCEPT !.verifying = "none", !.raised = "TypeError"]
  ELSE [h EXCEPT !.verifying = "none", !.stored = reconstruct(d),
                 !.status = "complete", !.hashCheck = "match"]

\* the rest of onReceiveComplete with verify() false
verifiedFalse(h) ==
  [h EXCEPT !.verifying = "none", !.hasDecoder = FALSE, !.stored = NullBytes,
            !.status = "scanning", !.hashCheck = "mismatch"]

\* the task that resumes onReceiveComplete after the await
QrVerifyResumes ==
  /\ host.verifying # "none"
  /\ host' = IF host.verifying = "match" THEN verifiedTrue(host, dec)
             ELSE verifiedFalse(host)
  /\ dec' = IF host.verifying = "match" THEN dec ELSE createDecoder
  /\ UNCHANGED <<last, emitted, senderVars, pre>>

NextVerify ==
  \/ QrStartScanning
  \/ QrResetReceiver
  \/ \E s \in Sessions, id \in 0..MaxSymbolId : QrScanFrameAsync(s, id)
  \/ QrVerifyResumes

SpecVerify == Init /\ [][NextVerify]_vars

\* ---------------------------------------------------- packet round trip
\* 32-bit words at the ends and in the middle of the range (0xDEADBEEF is
\* the session id of testPacketRoundtrip)
SampleWords == {<<0, 0>>, <<57005, 48879>>, <<65535, 65535>>}

SampleBlockSizes == {0, 200, 300, 65535}

\* every byte sequence over {0, 255} of length at most n
RECURSIVE PayloadsUpTo(_)
PayloadsUpTo(n) ==
  IF n = 0 THEN {<<>>}
  ELSE PayloadsUpTo(n - 1)
         \cup {Append(q, b) : q \in {x \in PayloadsUpTo(n - 1) : Len(x) = n - 1},
                              b \in {0, 255}}

PacketInputs ==
  [op : {"input"}, test : {"packet"}, fileId : SampleWords,
   k : {<<0, 100>>, <<65535, 65535>>}, symbolId : SampleWords,
   blockSize : SampleBlockSizes, isMetadata : BOOLEAN, mode : 0..3,
   spatialPos : {0, 2}, payload : PayloadsUpTo(MaxPayloadLen)]

InitPacket == Loaded /\ pre \in PacketInputs

packetOf(in) ==
  createPacketWith(in.fileId, in.k, in.symbolId, in.payload, in.isMetadata,
                   in.blockSize, in.mode, in.spatialPos)

roundTripped(in, packet) ==
  [op |-> "packet", input |-> in, packet |-> packet, parsed |-> parsePacketWide(packet)]

\* testPacketRoundtrip: parsePacket(createPacket(...))
TestPacketRoundtrip ==
  /\ pre.op = "input"
  /\ pre' = roundTripped(pre, packetOf(pre))
  /\ UNCHANGED <<dec, last, emitted, senderVars, host>>

SpecPacket == InitPacket /\ [][TestPacketRoundtrip]_vars

\* ------------------------------------------------- fountain neighbour choice
\* a session id, an intermediate block count and a symbol id above it
FountainInputs ==
  {in \in [op : {"input"}, test : {"fountain"}, fileId : SampleWords,
           K_prime : 1..MaxFountainK,
           symbolId : 2..(MaxFountainK + MaxFountainIds)] :
     in.symbolId > in.K_prime /\ in.symbolId <= in.K_prime + MaxFountainIds}

InitFountain == Loaded /\ pre \in FountainInputs

\* the degree roll of a symbol: the generator seeded with fileId ^ symbolId
\* after its first word
degreeRoll(fileId, symbolId) == next(createPRNG(Xor32(fileId, ToU32(symbolId))))

\* the number of distinct values pickUnique is asked for, 0 when the roll
\* gives degree one and pickUnique is not called
askedOf(roll, K_prime) == IF isDegreeOne(roll.value) THEN 0 ELSE fountainDegree(K_prime)

neighboursChosen(in, roll) ==
  [op |-> "fountain", input |-> in,
   asked |-> askedOf(roll, in.K_prime),
   encoder |-> encoderFountain(roll, in.K_prime),
   decoder |-> decoderFountain(roll, in.K_prime)]

\* the fountain branch of generateSymbol and of receive on one symbol id
ChooseNeighbours ==
  /\ pre.op = "input"
  /\ pre' = neighboursChosen(pre, degreeRoll(pre.fileId, pre.symbolId))
  /\ UNCHANGED <<dec, last, emitted, senderVars, host>>

SpecFountain == InitFountain /\ [][ChooseNeighbours]_vars

\* -------------------------------------------------- metadata round trip
\* the string of n code units c
Repeated(c, n) == Arr([i \in 1..n |-> c])

\* 'a' and U+00E9 (two bytes in UTF-8), in strings short, around 128 and
\* around 255 code units
SampleNames ==
  {Repeated(c, n) : c \in {97, 233},
                    n \in {0, 8, 127, 128, 255, MaxNameUnits} \cap 0..MaxNameUnits}

\* hash.fill(0xAB), and a digest of distinct bytes
SampleDigests == {Repeated(171, 32), Arr([i \in 1..32 |-> i])}

MetadataInputs ==
  [op : {"input"}, test : {"metadata"}, filename : SampleNames,
   mimeType : {TestMimeType, Repeated(233, 128), Repeated(97, MaxNameUnits)},
   fileSize : {0, 12345}, hash : SampleDigests, K : {1, 500}, mode : 0..3]

InitMetadata == Loaded /\ pre \in MetadataInputs

payloadOf(in) ==
  createMetadataPayloadWith(in.filename, in.mimeType, in.fileSize, in.hash, in.K, in.mode)

metadataTripped(in, payload) ==
  [op |-> "metadata", input |-> in, payload |-> payload,
   parsed |-> parseMetadataPayloadWide(payload)]

\* testMetadataRoundtrip: parseMetadataPayload(createMetadataPayload(...))
TestMetadataRoundtrip ==
  /\ pre.op = "input"
  /\ pre' = metadataTripped(pre, payloadOf(pre))
  /\ UNCHANGED <<dec, last, emitted, senderVars, host>>

SpecMetadata == InitMetadata /\ [][TestMetadataRoundtrip]_vars

\* ---------------------------------------------------- encoder construction
\* a file of one or two blocks under a sample filename and MIME type
ConstructInputs ==
  [op : {"input"}, test : {"encoder"}, filename : SampleNames,
   mimeType : {TestMimeType, Repeated(233, 128), Repeated(97, MaxNameUnits)},
   size : {BLOCK_SIZE \div 4, BLOCK_SIZE + BLOCK_SIZE \div 4}]

InitConstruct == Loaded /\ pre \in ConstructInputs

\* the payload of the packet generateSymbol(0) returns
symbolZeroPayload(enc) == parsePacket(generateSymbol(enc, 0).packet).payload

constructed(in, enc) ==
  [op |-> "encoder", input |-> in,
   raised |-> IF enc = RangeError THEN "RangeError" ELSE "none",
   payloadLength |-> IF enc = RangeError THEN 0 ELSE Len(symbolZeroPayload(enc))]

\* createEncoder(buffer, filename, mimeType, hash), then generateSymbol(0)
ConstructEncoder ==
  /\ pre.op = "input"
  /\ pre' = constructed(pre, createEncoder(FileIdOf(1), TestFile(pre.size), pre.filename,
                                           pre.mimeType, SHA256(TestFile(pre.size))))
  /\ UNCHANGED <<dec, last, emitted, senderVars, host>>

SpecConstruct == InitConstruct /\ [][ConstructEncoder]_vars

\* ------------------------------------------------------------------ claims
\* the decoder is bound to a session
Bound(d) == d.fileId # NullWord

\* C1: whenever isComplete() is true, reconstruct() returns exactly the bytes
\* of the file the encoder was created with, and verify() succeeds.
C1_CompleteMeansOriginal ==
  isComplete(dec) =>
    /\ reconstruct(dec) = FileOf(SessionOf(dec))
    /\ verify(dec)

\* C2: for every data packet of the session (symbol id >= 1) the neighbour
\* indices the decoder derives are the ones the encoder XORed together,
\* whether the packet arrives before or after the metadata packet.
C2_SameIndices ==
  Bound(dec) =>
    \A id \in 1..MaxSymbolId :
      OnChannel(SessionOf(dec), id) =>
        decoderIndices(dec, id) = encoderIndices(Encoders[SessionOf(dec)], id)

\* C3: the K' the encoder writes into every packet header is K plus the
\* number of rows of the parity map, the number of intermediate blocks it
\* holds, and the K' the decoder adopts from the metadata.
C3_AdvertisedKPrime ==
  dec.metadata # NullRec =>
    LET enc == Encoders[SessionOf(dec)]
    IN  /\ enc.K_prime = enc.K + Len(generateParityMap(enc.K, calculateParityParams(enc.K).G))
        /\ enc.K_prime = Len(enc.intermediateBlocks)
        /\ enc.K_prime = dec.K_prime

\* a fresh decoder fed the symbols ids of session s in increasing id order
RECURSIVE FeedAscending(_, _, _)
FeedAscending(d, s, ids) ==
  IF ids = {} THEN d
  ELSE LET id == CHOOSE x \in ids : \A y \in ids : x <= y
       IN  FeedAscending(receive(d, PacketOf(s, id)).d, s, ids \ {id})

\* C4: feeding a fixed set of packets of one session to a fresh decoder in
\* any two orders leaves the same decoded block array and the same
\* isComplete().
C4_OrderInvariant ==
  Bound(dec) =>
    LET other == FeedAscending(createDecoder, SessionOf(dec), dec.receivedSymbols)
    IN  /\ other.decodedBlocks = dec.decodedBlocks
        /\ isComplete(other) = isComplete(dec)

\* C5: receiving a packet whose symbol id the decoder has accepted in this
\* session returns false and changes nothing in the decoder.
C5_DuplicateIgnored ==
  Bound(dec) =>
    \A id \in dec.receivedSymbols :
      receive(dec, PacketOf(SessionOf(dec), id)) = [d |-> dec, result |-> "false"]

C5_Witness ==
  /\ last.class = "duplicate"
  /\ last.result = "false"
  /\ Cardinality(dec.receivedSymbols) >= 2
  /\ dec.solved >= 1

\* C6: a packet whose session id differs from the bound one returns
\* 'new_session' and changes nothing, also when its symbol id is in the
\* seen set: the session check comes before the duplicate check.
C6_ForeignPacket ==
  Bound(dec) =>
    \A s \in Sessions \ {SessionOf(dec)}, id \in 0..MaxSymbolId :
      OnChannel(s, id) =>
        receive(dec, PacketOf(s, id)) = [d |-> dec, result |-> "new_session"]

C6_Witness ==
  /\ last.class = "foreign"
  /\ last.seen
  /\ last.result = "new_session"
  /\ dec.solved >= 1

\* what a decoder that was just created does with the packet id of session s
FreshTable ==
  Arr([s \in Sessions |->
         Arr([i \in 1..(MaxSymbolId + 1) |->
                IF OnChannel(s, i - 1)
                THEN receive(createDecoder, PacketOf(s, i - 1))
                ELSE [d |-> createDecoder, result |-> "none"]])])

FreshReceive(s, id) == FreshTable[s][id + 1]

\* C7: when processPacket sees 'new_session' it resets the decoder and feeds
\* the same packet again, and the decoder is then in the state of a fresh
\* decoder that received only that packet.
C7_ResetAndRefeed ==
  Bound(dec) =>
    \A s \in Sessions \ {SessionOf(dec)}, id \in 0..MaxSymbolId :
      OnChannel(s, id) =>
        /\ processPacket(dec, PacketOf(s, id)) = FreshReceive(s, id)
        /\ FreshReceive(s, id).d.fileId = Encoders[s].fileId
        /\ FreshReceive(s, id).d.receivedSymbols = {id}

C7_Witness ==
  /\ last.class = "foreign"
  /\ last.seen
  /\ last.result = "true"
  /\ Cardinality(dec.receivedSymbols) = 1
  /\ dec.solved = 1

\* C8: within one session a block slot that holds a value keeps that value:
\* no later receive overwrites or clears it.
C8_WriteOnce ==
  [][(Bound(dec) /\ dec'.fileId = dec.fileId) =>
       \A i \in 1..Len(dec.decodedBlocks) :
         dec.decodedBlocks[i] # NullBytes =>
           /\ i <= Len(dec'.decodedBlocks)
           /\ dec'.decodedBlocks[i] = dec.decodedBlocks[i]]_vars

C8_Witness ==
  /\ dec.metadata # NullRec
  /\ dec.K >= 2
  /\ dec.solved >= 3
  /\ dec.solvedSource < dec.solved
  /\ last.class = "data"

\* C9: once K is known, solvedSource is the number of decoded slots among
\* blocks 0..K-1, so isComplete() is true exactly when all of them are
\* decoded.
C9_SolvedSourceCounts ==
  dec.K # NullNum =>
    /\ dec.solvedSource = CountDecoded(dec.decodedBlocks, 0, dec.K)
    /\ isComplete(dec) <=>
         \A i \in 0..(dec.K - 1) : blockAt(dec.decodedBlocks, i) # NullBytes

C9_Witness ==
  /\ dec.K # NullNum
  /\ dec.solvedSource >= 1
  /\ dec.solvedSource < dec.K
  /\ dec.solved > dec.solvedSource

\* C10: generateSymbol(symbolId) returns a packet for every symbol id >= 0 of
\* every file of K >= 1 blocks; it never raises.
C10_EmitNeverRaises ==
  emitted # NullRec => emitted.out # TypeError

\* generateSymbol(symbolId) returned a data packet whose payload is
\* intermediate block symbolId - 1 of the encoder, byte for byte
CarriesBlock(enc, e) ==
  /\ e.out # TypeError
  /\ ~parsePacket(e.out.packet).isMetadata
  /\ parsePacket(e.out.packet).symbolId = e.symbolId
  /\ e.symbolId <= Len(enc.intermediateBlocks)
  /\ parsePacket(e.out.packet).payload = enc.intermediateBlocks[e.symbolId]

\* C11: for every id in 1..K' (K' as the encoder advertises it)
\* generateSymbol(id) returns a data packet whose payload is intermediate
\* block id-1 verbatim.
C11_SystematicVerbatim ==
  (emitted # NullRec /\ emitted.symbolId \in 1..Encoders[emitted.session].K_prime) =>
    CarriesBlock(Encoders[emitted.session], emitted)

\* the feed loop of testCodecRoundtrip: symbol ids 0, 1, 2, ... in order,
\* each generated and received, until the decoder is complete
stepInOrder(d, s, id) ==
  IF isComplete(d) \/ ~OnChannel(s, id) THEN d ELSE receive(d, PacketOf(s, id)).d

RECURSIVE InOrderRun(_, _)
InOrderRun(s, run) ==
  IF Len(run) = MaxUnique THEN run
  ELSE InOrderRun(s, Append(run, stepInOrder(run[Len(run)], s, Len(run))))

\* the decoder after symbols 0..n of session s, at [s][n + 1]
InOrderTable ==
  Arr([s \in Sessions |-> InOrderRun(s, <<FreshReceive(s, 0).d>>)])

InOrder(s, n) == InOrderTable[s][n + 1]

\* C12: a fresh decoder fed the metadata packet and then symbols 1, 2, ... in
\* increasing order is, after each packet n <= K', either complete with
\* reconstruct() equal to the original file, or short of K' with the next
\* symbol available: it is complete after at most K'+1 packets.
C12_InOrderCompletes ==
  \A s \in Sessions : \A n \in 0..(MaxUnique - 1) :
    dec = InOrder(s, n) =>
      \/ isComplete(dec) /\ reconstruct(dec) = FileOf(s)
      \/ ~isComplete(dec) /\ n < Encoders[s].K_prime /\ OnChannel(s, n + 1)

C12_Witness ==
  \E s \in Sessions :
    /\ Encoders[s].K >= 2
    /\ dec = InOrder(s, Encoders[s].K)
    /\ dec.receivedSymbols = 0..Encoders[s].K
    /\ isComplete(dec)
    /\ last.class = "data"

\* the sender is streaming the file of session s: started, not paused, not
\* stopped, its interval armed
Streaming(s) ==
  /\ sender.encoder = s
  /\ sender.isSending
  /\ ~sender.isPaused
  /\ timers > 0

\* C14: while the QR sender keeps streaming one file and its timer keeps
\* firing, the metadata symbol and every symbol id in 1..K' are each emitted
\* infinitely often.
C14_EveryIdRecurs ==
  \A s \in Sessions : \A id \in 0..Encoders[s].K_prime :
    <>[]Streaming(s) => []<>InSeq(rendered.ids, id)

\* the frame on the canvas carries a packet the decoder has not received
Undelivered ==
  /\ canvas # NoCanvas
  /\ ~(dec.fileId = FileIdOf(canvas.session)
         /\ canvas.ids[1] \in dec.receivedSymbols)

\* C13: if the sender streams without stopping and the channel delivers
\* every packet the sender keeps emitting infinitely often (from some point
\* on the canvas shows only packets the decoder has received), the decoder
\* eventually reaches isComplete() with a file that passes verification.
C13_EventuallyComplete ==
  \A s \in Sessions :
    <>[]~Undelivered => (Streaming(s) ~> (isComplete(dec) /\ verify(dec)))

\* receive accepted the metadata packet of session s: K, the parity map and
\* the file metadata are set
MetadataAccepted(r, s) ==
  /\ r.result = "true"
  /\ r.d.metadata # NullRec
  /\ r.d.K = Encoders[s].K
  /\ r.d.parityMap # NullMap

\* C15: when a metadata packet of the bound session fails to parse, the
\* decoder stays without metadata, and a decoder without metadata accepts
\* the well-formed metadata packet of its session, which sets K, the parity
\* map and the file metadata.
C15_MetadataRetry ==
  /\ last.result = "RangeError" => dec.metadata = NullRec
  /\ (Bound(dec) /\ dec.metadata = NullRec) =>
       MetadataAccepted(receive(dec, PacketOf(SessionOf(dec), 0)), SessionOf(dec))

\* C16: receive never raises an error to its caller; a metadata packet whose
\* declared string lengths run past the payload makes it return normally
\* with metadata and K unset.
C16_NeverRaises ==
  /\ last.result \in {"none", "true", "false", "new_session"}
  /\ (last.class = "metadata" /\ dec.metadata = NullRec) => dec.K = NullNum

\* C17: receive of a buffer shorter than 16 bytes or with another protocol
\* version returns false and changes nothing in the decoder: it binds no
\* session and adds nothing to the seen set.
C17_RejectedUnchanged ==
  \A s \in Sessions, id \in 0..MaxNoisyId :
    \A kind \in {"short", "empty", "version", "version0"} :
      OnChannel(s, id) =>
        receive(dec, Damaged(PacketOf(s, id), kind)) = [d |-> dec, result |-> "false"]

C17_Witness ==
  /\ last.class = "rejected"
  /\ last.result = "false"
  /\ dec = createDecoder

\* C19: when all parity blocks and all source blocks but one are present,
\* recoverWithParity restores the missing source block bit for bit and
\* reports exactly one recovered block.
C19_ParityRestoresOne ==
  (pre # NullRec /\ pre.op = "recover") =>
    /\ pre.restored = pre.removedBlock
    /\ pre.recovered = 1

C19_Witness ==
  /\ pre # NullRec
  /\ pre.op = "recover"
  /\ pre.K = MaxParityK
  /\ pre.removedIdx = 7
  /\ pre.recovered = 1
  /\ pre.restored = testBlocks(pre.K, pre.fill)[8]

\* C20: every source index 0..K-1 appears in at least one group of
\* generateParityMap(K, ceil(sqrt(K))).
C20_ParityMapCovers ==
  (pre # NullRec /\ pre.op = "map") =>
    \A i \in 0..(pre.K - 1) :
      \E p \in 1..Len(pre.parityMap) : InSeq(pre.parityMap[p], i)

C20_Witness ==
  /\ pre # NullRec
  /\ pre.op = "map"
  /\ pre.K = MaxParityK
  /\ Len(pre.parityMap) > CeilSqrt(pre.K)

\* C18: with K = 16, a decoder that has received the metadata packet, the
\* systematic symbols of all parity blocks and the systematic symbols of at
\* least K - 2 source blocks is complete.
C18_TwoMissingRecovered ==
  (/\ 0 \in dec.receivedSymbols
   /\ ParityIds \subseteq dec.receivedSymbols
   /\ Cardinality(SourceIds \ dec.receivedSymbols) <= 2)
    => isComplete(dec)

\* C21: in both receiver hosts, when the digest of the reconstructed bytes
\* differs from the metadata digest, no file is stored for download and the
\* complete view is not shown.
C21_MismatchDiscarded ==
  host.hashCheck = "mismatch" => (host.stored = NullBytes /\ host.status # "complete")

\* a step inside a pause: the pause itself, any step that leaves the sender
\* paused, and the resume that ends it
PauseStep ==
  \/ sender'.isPaused
  \/ sender.isPaused /\ ~sender'.isPaused /\ sender'.isSending

\* C22: from the pause to the resume the encoder, the data-symbol counter
\* and the frame counter keep their values and no symbol is drawn.
C22_PauseResumeKeeps ==
  [][PauseStep =>
       /\ sender'.encoder = sender.encoder
       /\ sender'.symbolId = sender.symbolId
       /\ sender'.frameCount = sender.frameCount
       /\ rendered'.ids = <<>>
       /\ canvas' = canvas]_vars

\* the sender right after a resume in the middle of a stream
C22_Witness ==
  /\ sender.isSending /\ ~sender.isPaused /\ sender.intervalId # NullNum
  /\ rendered = NoRender
  /\ sender.symbolId > 1 /\ sender.frameCount > 1

\* C23: parsePacket(createPacket(...)) returns the session id, K', symbol
\* id, block size, metadata flag, mode and payload that were encoded.
C23_PacketRoundTrip ==
  pre.op = "packet" =>
    /\ pre.parsed # NullRec
    /\ pre.parsed.fileId = pre.input.fileId
    /\ pre.parsed.k = pre.input.k
    /\ pre.parsed.symbolId = pre.input.symbolId
    /\ pre.parsed.blockSize = pre.input.blockSize
    /\ pre.parsed.isMetadata = pre.input.isMetadata
    /\ pre.parsed.mode = pre.input.mode
    /\ pre.parsed.payload = pre.input.payload

\* a metadata packet of the last mode with the largest symbol id and block
\* size and a payload of full length went through the round trip
C23_Witness ==
  /\ pre.op = "packet"
  /\ pre.input.symbolId = <<65535, 65535>>
  /\ pre.input.blockSize = 65535
  /\ pre.input.mode = 3 /\ pre.input.isMetadata
  /\ Len(pre.input.payload) = MaxPayloadLen
  /\ Len(pre.packet) = 16 + MaxPayloadLen

\* the length bytes of a metadata payload equal the numbers of string bytes
\* that follow them
LengthBytesExact(payload, filenameBytes, mimeBytes) ==
  /\ payload[1] = Len(filenameBytes)
  /\ payload[2 + Len(filenameBytes)] = Len(mimeBytes)

\* C24: for every filename and MIME string (cut to 255 code units) the
\* length bytes of createMetadataPayload equal the string bytes written, and
\* parseMetadataPayload reads back the same fileSize, digest, K and mode.
C24_MetadataRoundTrip ==
  pre.op = "metadata" =>
    /\ LengthBytesExact(pre.payload, TextEncode(Slice(pre.input.filename, 0, 255)),
                        TextEncode(Slice(pre.input.mimeType, 0, 255)))
    /\ pre.parsed # RangeError
    /\ pre.parsed.fileSize = ToU32(pre.input.fileSize)
    /\ pre.parsed.hash = pre.input.hash
    /\ pre.parsed.K = ToU32(pre.input.K)
    /\ pre.parsed.mode = pre.input.mode

\* parity row p (0-based) could recover a block: its parity block is decoded
\* and exactly one of its source blocks is not
RowRecoverable(d, p) ==
  /\ blockAt(d.decodedBlocks, d.K + p) # NullBytes
  /\ Len(SelectUnknown(d.decodedBlocks, d.parityMap[p + 1])) = 1

\* C25: whenever the parity map is known and receive has returned with the
\* decoder not complete, no parity row with a decoded parity block has
\* exactly one undecoded source block.
C25_ParityFixpoint ==
  (last # NoCall /\ dec.parityMap # NullMap /\ ~isComplete(dec)) =>
    \A p \in 0..(Len(dec.parityMap) - 1) : ~RowRecoverable(dec, p)

\* a pending constraint in reduced form: two or more indices, none of them
\* the index of a decoded block
Reduced(d, sym) ==
  /\ Len(sym.indices) >= 2
  /\ \A j \in 1..Len(sym.indices) : blockAt(d.decodedBlocks, sym.indices[j]) = NullBytes

\* C26: when receive has returned, every constraint left in the pending list
\* has at least two indices and none of its indices is a decoded block.
C26_PendingReduced ==
  last # NoCall =>
    \A i \in 1..Len(dec.pendingSymbols) : Reduced(dec, dec.pendingSymbols[i])

\* receive returned from its data branch and left a constraint that it cut
\* from three indices to two
C26_Witness ==
  /\ last.class = "data" /\ last.result = "true"
  /\ \E i \in 1..Len(dec.pendingSymbols) : Len(dec.pendingSymbols[i].indices) = 2

\* a step in which a bound decoder accepts its first metadata packet and
\* replaces the K' taken from the header
MetadataResizes ==
  /\ Bound(dec) /\ dec'.fileId = dec.fileId
  /\ dec.metadata = NullRec /\ dec'.metadata # NullRec
  /\ dec'.K_prime # dec.K_prime

\* every block decoded at an index below both sizes is still there
BlocksKept(old, new) ==
  \A i \in 0..(Min(old.K_prime, new.K_prime) - 1) :
    blockAt(old.decodedBlocks, i) # NullBytes =>
      blockAt(new.decodedBlocks, i) = blockAt(old.decodedBlocks, i)

\* both counters are the numbers of decoded slots of the block array
CountersExact(d) ==
  /\ d.solved = CountDecoded(d.decodedBlocks, 0, Len(d.decodedBlocks))
  /\ d.solvedSource = CountDecoded(d.decodedBlocks, 0, d.K)

\* C27: when the first metadata packet is accepted and the canonical K'
\* differs from the K' bound from the header, every block decoded at an index
\* below both sizes keeps its value at the same index and both counters are
\* recomputed to the exact numbers of decoded source and intermediate slots.
C27_ResizeKeepsBlocks ==
  [][MetadataResizes => (BlocksKept(dec, dec') /\ CountersExact(dec'))]_vars

\* a decoder just after its first metadata packet, resized to K + the number
\* of parity rows, that kept a source block and a parity block decoded before
C27_Witness ==
  /\ last.class = "metadata" /\ last.result = "true"
  /\ dec.K_prime = dec.K + Len(dec.parityMap)
  /\ Len(dec.decodedBlocks) = dec.K_prime
  /\ dec.solvedSource >= 1 /\ dec.solved > dec.solvedSource

\* every index of every pending constraint of d is below d.K_prime
PendingBelowKPrime(d) ==
  \A i \in 1..Len(d.pendingSymbols) :
    \A j \in 1..Len(d.pendingSymbols[i].indices) :
      d.pendingSymbols[i].indices[j] < d.K_prime

\* every index at which d stores a block is below d.K_prime
StoredBelowKPrime(d) ==
  \A i \in 0..(Len(d.decodedBlocks) - 1) :
    blockAt(d.decodedBlocks, i) # NullBytes => i < d.K_prime

\* C28: in every reachable decoder state, every index held in a pending
\* constraint and every index at which a block is stored is smaller than the
\* decoder's current K', the length of the block array, also after the
\* metadata packet has changed K'.
C28_IndicesBelowKPrime ==
  Bound(dec) =>
    /\ Len(dec.decodedBlocks) = dec.K_prime
    /\ PendingBelowKPrime(dec)
    /\ StoredBelowKPrime(dec)

\* a decoder whose metadata packet replaced the header K' while it held a
\* decoded block and a pending constraint
C28_Witness ==
  /\ last.class = "metadata" /\ last.result = "true"
  /\ dec.K_prime = dec.K + Len(dec.parityMap)
  /\ dec.solved >= 1
  /\ Len(dec.pendingSymbols) >= 1

\* a step made by calls on one decoder with no reset(): the session the
\* decoder is bound to is the same before and after
SameDecoder == Bound(dec) /\ dec'.fileId = dec.fileId

\* C29: once isComplete() is true it stays true after every later receive on
\* the same decoder (data, metadata, duplicate or foreign-session packet)
\* until reset() is called.
C29_CompleteStays ==
  [][(isComplete(dec) /\ SameDecoder) => isComplete(dec')]_vars

\* a complete decoder that was handed a packet of another session and
\* answered 'new_session', still complete
C29_Witness ==
  /\ isComplete(dec)
  /\ last.class = "foreign" /\ last.result = "new_session"

\* the number of slots of the block array that hold no block
UnknownSlots(d) == Len(d.decodedBlocks) - CountDecoded(d.decodedBlocks, 0, Len(d.decodedBlocks))

\* the number of source blocks not decoded
UnknownSources(d) == d.K - CountDecoded(d.decodedBlocks, 0, d.K)

\* the passes of parityRecovery are bounded by the source blocks it can recover
PassesWithin(passes, d) == passes >= 1 => passes <= UnknownSources(d) + 1

ParityBounded(d) == PassesWithin(parityPasses(d), d)

\* the loops of the data branch, started on the decoder with the symbol pushed
LoopsBounded(pushed) ==
  /\ propagatePasses(pushed) <= Len(pushed.pendingSymbols) + 1
  /\ ParityBounded(propagate(pushed))

\* receive of a data packet on the bound decoder b: both loops stop and the
\* call decodes no more blocks than b had unknown
DataCallBounded(b, parsed) ==
  /\ LoopsBounded(pushedData(b, parsed))
  /\ acceptData(b, parsed).solved - b.solved <= UnknownSlots(b)

\* a new data packet of the channel that dec would take
TakesData(parsed) == ClassOf(dec, parsed) = "data" /\ WithinBound(dec, parsed)

\* the bounds for one parsed packet of the channel, when dec would take it
DataPacketBounded(parsed) ==
  TakesData(parsed) =>
    DataCallBounded(addSeen(bindSession(dec, parsed), parsed), parsed)

\* C30: every receive call terminates: the propagate loop and the
\* parity-recovery loop each stop after finitely many passes (at most one
\* more than the pending constraints, and one more than the unknown source
\* blocks), and one receive decodes at most as many blocks as were unknown
\* when it started.
C30_ReceiveTerminates ==
  \A s \in Sessions, id \in 1..MaxSymbolId :
    OnChannel(s, id) => DataPacketBounded(parsePacket(PacketOf(s, id)))

\* a decoder that has taken data packets and is about to take one on which
\* propagate scans twice and parityRecovery scans twice
TwoPasses(pushed) ==
  propagatePasses(pushed) >= 2 /\ parityPasses(propagate(pushed)) >= 2

C30_Witness ==
  /\ last.class = "data" /\ last.result = "true"
  /\ \E s \in Sessions, id \in 1..MaxSymbolId :
       /\ OnChannel(s, id) /\ TakesData(parsePacket(PacketOf(s, id)))
       /\ TwoPasses(pushedData(addSeen(dec, parsePacket(PacketOf(s, id))),
                               parsePacket(PacketOf(s, id))))

\* between 1 and 3 pairwise-distinct indices, all in 0..K'-1, and not all K'
\* blocks when K' >= 2
NeighboursOk(indices, K_prime) ==
  /\ Len(indices) \in 1..FOUNTAIN_DEGREE
  /\ \A i \in 1..Len(indices) : indices[i] \in 0..(K_prime - 1)
  /\ \A i, j \in 1..Len(indices) : i # j => indices[i] # indices[j]
  /\ K_prime >= 2 => Len(indices) < K_prime

\* C31: for every K' >= 1 and every fountain symbol id (> K'), encoder and
\* decoder choose between 1 and 3 pairwise-distinct neighbour indices, all in
\* 0..K'-1 and never all K' blocks when K' >= 2, and never ask pickUnique for
\* more distinct values than exist.
C31_FountainNeighbours ==
  pre.op = "fountain" =>
    /\ NeighboursOk(pre.encoder, pre.input.K_prime)
    /\ NeighboursOk(pre.decoder, pre.input.K_prime)
    /\ pre.asked <= pre.input.K_prime

\* a symbol over three blocks whose roll asked pickUnique for two of them
C31_Witness ==
  /\ pre.op = "fountain"
  /\ pre.input.K_prime = 3
  /\ pre.asked = 2 /\ Len(pre.encoder) = 2 /\ pre.decoder = pre.encoder

\* the tick about to run is a METADATA_INTERVAL-th one
MetadataTick == (sender.frameCount + 1) % METADATA_INTERVAL = 0

\* the tick drew the metadata frame and left the data-symbol counter alone
EmitsMetadata ==
  /\ rendered'.ids = frameIds(sender.mode, 0)
  /\ sender'.symbolId = sender.symbolId

\* the tick drew the frame of the current data symbol id and moved the
\* counter on
EmitsData ==
  /\ rendered'.ids = frameIds(sender.mode, sender.symbolId)
  /\ sender'.symbolId =
       wrapSymbolId(sender, sender.symbolId + symbolsPerFrame(sender.mode))

\* C32: in the QR sender's tick loop, every METADATA_INTERVAL-th non-paused
\* tick emits the metadata symbol (id 0) and leaves the data-symbol counter
\* unchanged; every other tick emits the current data symbol id and advances
\* the counter.
C32_TickInterleaves ==
  [][(SenderTick /\ ~sender.isPaused) =>
       IF MetadataTick THEN EmitsMetadata ELSE EmitsData]_vars

\* C33: in every state of the QR sender the data-symbol counter satisfies
\* 1 <= symbolId <= K': it starts at 1 when a file is staged and returns to 1
\* as soon as an increment takes it past K'.
C33_CounterInRange ==
  /\ sender.symbolId >= 1
  /\ sender.encoder # NoEncoder =>
       sender.symbolId <= stagedEncoder(sender.encoder).K_prime
  /\ (sender.encoder # NoEncoder /\ ~sender.isSending) => sender.symbolId = 1

\* the sender drew the frame of the last symbol id, K', and its counter is
\* back at 1
C33_Witness ==
  /\ sender.isSending /\ sender.encoder # NoEncoder
  /\ rendered.ids = <<stagedEncoder(sender.encoder).K_prime>>
  /\ sender.symbolId = 1

\* C34: for every K, every group of generateParityMap(K, ceil(sqrt(K)))
\* contains at least two source indices.
C34_NoSingleBlockParity ==
  (pre # NullRec /\ pre.op = "map") =>
    \A p \in 1..Len(pre.parityMap) : Len(pre.parityMap[p]) >= 2

\* a string whose UTF-8 form has at most 255 bytes
AtMost255Bytes(str) == Len(TextEncode(str)) <= 255

\* C35: for every filename and MIME type of at most 255 bytes each, the
\* serialised metadata fits in one block of B bytes, so encoder construction
\* succeeds and symbol 0 carries a payload of exactly B bytes.
C35_MetadataFitsBlock ==
  (/\ pre.op = "encoder"
   /\ AtMost255Bytes(pre.input.filename)
   /\ AtMost255Bytes(pre.input.mimeType)) =>
    /\ pre.raised = "none"
    /\ pre.payloadLength = BLOCK_SIZE

\* C36: completion handling in the QR receiver is atomic with respect to
\* other receiver events: no reset or restart runs between the start of
\* verification and the use of its result, so the completion handler never
\* uses a decoder that has been discarded and never reports completion for a
\* session that was reset.
C36_CompletionAtomic ==
  /\ ~(host.verifying # "none" /\ host.interrupted)
  /\ host.raised = "none"
  /\ ~(host.status = "complete" /\ host.interrupted)

\* C37: for any sequence of the QR sender's bound events (file select,
\* Start, Pause, Resume, Stop, speed change) at most one tick timer is
\* active, a timer is active only while the sender is sending and not paused,
\* and no tick runs after Stop has cleared the encoder.
C37_OneTimer ==
  /\ timers <= 1
  /\ timers > 0 => (sender.isSending /\ ~sender.isPaused)
  /\ sender.encoder = NoEncoder => timers = 0

\* the HDMI-UVC sender is sending file s, not paused, its next frame scheduled
HdmiStreaming(s) ==
  /\ sender.encoder = s
  /\ sender.isSending
  /\ ~sender.isPaused
  /\ timers > 0

\* the frame generated last carries the metadata symbol
HdmiMetadataShown == emitted # NullRec /\ emitted.symbolId = 0

\* C38: while the HDMI-UVC sender keeps streaming a file, its frame loop
\* emits the metadata symbol (id 0) again and again between data symbols, so
\* a receiver listening to the stream can learn K.
C38_HdmiMetadataRecurs ==
  \A s \in HdmiFiles : <>[]HdmiStreaming(s) => []<>HdmiMetadataShown

\* processFrame takes a frame whose packet belongs to another session than
\* the one the decoder is bound to
HdmiForeignFrame(s, id) ==
  /\ HdmiProcessFrame(s, id)
  /\ ClassOf(dec, parsePacket(PacketOf(s, id))) = "foreign"

\* C39: when the decoder of the HDMI-UVC receiver reports NewSession for a
\* packet, the receiver resets the decoder and re-feeds the packet, so the
\* decoder ends up bound to the packet's session.
C39_HdmiRebinds ==
  [][\A s \in Sessions, id \in 0..MaxSymbolId :
       HdmiForeignFrame(s, id) => dec'.fileId = FileIdOf(s)]_vars

=============================================================================
